---- MODULE Spec2Model ----
(***************************************************************************)
(* EcoScholar: the adaptive qualification pipeline of App.tsx (the later   *)
(* revision, lines 644-1385): handleRunCycle, processPaperBatch and        *)
(* handleCancel, with OllamaService/GeminiService.analyzePaper and         *)
(* getEmbedding as the judgment oracle and the embedding provider.         *)
(*                                                                         *)
(* JavaScript runs one callback at a time.  `active` names the execution   *)
(* of handleRunCycle whose synchronous section is running; it is 0 when    *)
(* the event loop is idle.  Clicks, timers and promise resolutions happen  *)
(* only when active = 0, and an execution gives the loop back exactly at   *)
(* its awaits.                                                             *)
(*                                                                         *)
(* Scores and thresholds are in hundredths (0.59 is 59).  A composite      *)
(* score is kept as the sum of the top contributions: the code divides     *)
(* that sum by 6, so compositeScore >= compMin is sum >= 6 * compMin.      *)
(* speedupQualifyRate is kept in quarters (0.5 is 2), values that are      *)
(* exact in binary floating point, so that N * R is exact.                 *)
(***************************************************************************)
EXTENDS Integers, Sequences, FiniteSets, TLC

\* ------------------------------------------------------------- bounds ----
MaxExec == 1      \* presses of Run that Spec follows
MaxOverlap == 3   \* presses of Run that SpecOverlap follows
MaxPage == 2      \* most papers one page fetch returns
MaxPages == 2     \* pages of the first queue item (stopRec / BATCH_SIZE)
MaxAttempts == 2  \* judgment attempts of one document (operator RETRY)
NumItems == 2     \* items in the queue
MaxRules == 7     \* most enabled semantic sentences SpecScoring follows
MaxPermuted == 4  \* longest rule list of which every permutation is taken
MaxLatency == 3   \* longest time a request to Ollama takes, in RETRY_INTERVALs

\* -------------------------------------------------- program constants ----
BATCH_SIZE == 20
CHUNK_SIZE == 5
\* fetchWithCORSCheck: the retry window and the pause between tries, in seconds
MAX_DURATION == 180
RETRY_INTERVAL == 10
\* retryWithBackoff: the default of maxRetries
MAX_RETRIES == 3
TOP_K == 6
MATCH_FLOOR == 35
MAX_MATCHES == 3
QUALIFY_SCORE == 6
SCORE_CAP == 10

Items == 1..NumItems

\* The queue: item 1 keeps the default thresholds, item 2 a low compMin.
ItemStartRec(i) == 0
ItemStopRec(i) == IF i = 1 THEN MaxPages * BATCH_SIZE ELSE 1
ItemVecMin(i) == 59
ItemCompMin(i) == IF i = 1 THEN 60 ELSE 10

\* config.semanticSentences that are enabled: TRUE is a requirement
\* (positive), FALSE a penalty.
SemanticSentences == <<TRUE, FALSE>>

\* What getEmbedding returns for a paper: null, or a vector, given by its
\* cosine similarity to the query vector (q) and to each rule vector (r).
NullVector == [isNull |-> TRUE, q |-> 0, r |-> <<0, 0>>]
PaperVectors ==
  { [isNull |-> FALSE, q |-> 30, r |-> <<20, 20>>],
    [isNull |-> FALSE, q |-> 70, r |-> <<20, 20>>],
    [isNull |-> FALSE, q |-> 30, r |-> <<90, 10>>] }

\* What one inference of analyzePaper yields: the JSON of the model, or a
\* failure (the request threw, or the text was no JSON).
Json(qualified, score, probability) ==
  [ok |-> TRUE, qualified |-> qualified, score |-> score, probability |-> probability]
OracleJson ==
  { Json(TRUE, 0, 0), Json(FALSE, 0, 0), Json(FALSE, 5, 0), Json(FALSE, 6, 0),
    Json(FALSE, 0, 7), Json(FALSE, 11, 3) }
InferenceFailed == [ok |-> FALSE, qualified |-> FALSE, score |-> 0, probability |-> 0]
Inferences == OracleJson \cup {InferenceFailed}
\* JSON with a score or a probability outside 0..10, or equal to 1 (the
\* upper end of the values a model gives on a 0-1 scale).
OracleJsonWide ==
  { Json(qualified, score, probability) :
      qualified \in BOOLEAN, score \in {0 - 1, 1, 11}, probability \in {0 - 1, 0, 1, 12} }
InferencesWide == Inferences \cup OracleJsonWide

\* config: failFast, speedupSampleCount, speedupQualifyRate (quarters),
\* provider, and the two toggles searchMode and useWebScraping.
Config(failFast, speedupSampleCount, rateQ, provider, useWebScraping, searchMode) ==
  [failFast |-> failFast, speedupSampleCount |-> speedupSampleCount, rateQ |-> rateQ,
   provider |-> provider, useWebScraping |-> useWebScraping, searchMode |-> searchMode]
Configs ==
  { Config(FALSE, 1, 4, "ollama", FALSE, "SEMANTIC"),
    Config(FALSE, 1, 0, "ollama", FALSE, "SEMANTIC"),
    Config(FALSE, 3, 2, "ollama", FALSE, "SEMANTIC"),
    Config(TRUE, 2, 2, "ollama", FALSE, "SEMANTIC"),
    Config(TRUE, 0, 0, "ollama", FALSE, "SEMANTIC"),
    Config(FALSE, 2, 2, "gemini", TRUE, "PUBMED") }

VARIABLES
  config,                   \* AppConfig and the toggles, fixed for a behaviour
  queue,                    \* queue[i]: status of queue item i
  isProcessing,             \* React state isProcessing
  processingState,          \* 0, or the execution whose paper the overlay shows
  results,                  \* the result feed (React state results)
  abortControllerRef,       \* 0, or the controller (= execution) it holds
  aborted,                  \* controllers whose signal is aborted
  cycleRef,                 \* cycleRef.current
  hasTriggeredSmartModeRef, \* hasTriggeredSmartModeRef.current
  userActionResolverRef,    \* <<0,0>>, or <<execution, attempt>> it resolves
  exec,                     \* exec[e]: locals of the e-th handleRunCycle call
  active                    \* execution running synchronously, or 0

vars == <<config, queue, isProcessing, processingState, results,
          abortControllerRef, aborted, cycleRef, hasTriggeredSmartModeRef,
          userActionResolverRef, exec, active>>

NoAnalysis == [kind |-> "none", qualified |-> FALSE, score |-> 0, probability |-> 0]
NoJson == InferenceFailed
ZeroCycle == [processedCount |-> 0, qualifiedCount |-> 0, failFastTriggered |-> FALSE]

\* A fetchWithCORSCheck call: where it is, attempt, the seconds since
\* startTime, the requests it has sent, whether the url names localhost, how
\* it ended and whether the signal was aborted by then.
NoCall ==
  [pc |-> "none", attempt |-> 0, elapsed |-> 0, sent |-> 0,
   localhost |-> FALSE, result |-> "none", endAborted |-> FALSE]

\* A retryWithBackoff call: where it is, maxRetries, the loop index i, the
\* calls of operation() made, the errors they threw, lastError, and how the
\* call ended (thrown: the error it threw).
NoError == [status |-> 0, message |-> "none"]
NoBackoff ==
  [pc |-> "none", maxRetries |-> 0, i |-> 0, calls |-> 0, errors |-> <<>>,
   lastError |-> NoError, result |-> "none", thrown |-> NoError]

InitExec ==
  [pc |-> "idle", mode |-> "single", targetIds |-> <<>>, tIdx |-> 1, qIdx |-> 0,
   rules |-> <<>>, queryVector |-> "null",
   currentStart |-> 0, failFastStop |-> FALSE,
   papers |-> 0, paperEmbeddings |-> <<>>, c |-> 0, pIdx |-> 0,
   vectorScore |-> 0, compositeSum |-> 0,
   passedVector |-> FALSE, passedComposite |-> FALSE,
   status |-> "FILTERED_OUT", skippedAi |-> TRUE, aiAnalysis |-> NoAnalysis,
   analysisDone |-> FALSE, attempt |-> 0,
   \* history of the current document and query, read by the properties only
   \* json: what the oracle answered; before: cycleRef when the iteration of
   \* the paper began; ordinal: papers of this query that passed the
   \* pre-filter so far; calls: analyzePaper calls for the paper; locked,
   \* triggered: a paper of this query was fast-pathed, hit fail-fast, before
   \* the current one; fresh: the paper was appended in the last step; delta:
   \* what the paper added to qualifiedCount; returned: the papers the source
   \* returned for this query so far; log: what the scoring and the judgment
   \* gave for each paper of the query recorded so far.
   \* first, retry: the answers to the first and to the corrective inference
   \* of the last analyzePaper call; queries: the inferences it made.
   \* aiAborted: aiAbort.abort() was called in the last attempt.
   \* answers: what getEmbedding returned for the papers of the page whose
   \* request has settled; arrived: their positions in completion order.
   answers |-> <<>>, arrived |-> <<>>,
   \* requests: page requests made for the query so far; asked: the records
   \* the last of them asked for; lastOffset: its offset (-1 before the first).
   requests |-> 0, asked |-> 0, lastOffset |-> 0 - 1,
   \* races: the judgment attempts this execution has started; pending: the
   \* oracle calls and 70 s timers of its attempts that have not settled or
   \* fired yet, each with the number of its attempt.  They are kept only
   \* where followLate is set (SpecLate).
   followLate |-> FALSE, races |-> 0, pending |-> {},
   \* net: the fetchWithCORSCheck call the execution awaits (NoCall: not
   \* followed)
   net |-> NoCall,
   \* backoff: the retryWithBackoff call the execution awaits (NoBackoff: not
   \* followed)
   backoff |-> NoBackoff,
   \* probMin: item.probMin of the queue items (5 unless the operator drags it)
   probMin |-> 5,
   \* matches: result.matches of the current paper
   matches |-> <<>>,
   log |-> <<>>, first |-> NoJson, retry |-> NoJson, queries |-> 0, aiAborted |-> FALSE,
   json |-> NoJson, before |-> ZeroCycle, ordinal |-> 0, calls |-> 0, returned |-> 0,
   fastSeen |-> FALSE, locked |-> FALSE, failSeen |-> FALSE, triggered |-> FALSE,
   fresh |-> FALSE, delta |-> 0, thrown |-> "none", thrownAt |-> "none"]

Init ==
  /\ config \in Configs
  /\ queue = [i \in Items |-> "READY"]
  /\ isProcessing = FALSE
  /\ processingState = 0
  /\ results = <<>>
  /\ abortControllerRef = 0
  /\ aborted = {}
  /\ cycleRef = ZeroCycle
  /\ hasTriggeredSmartModeRef = FALSE
  /\ userActionResolverRef = <<0, 0>>
  /\ exec = [e \in 1..MaxExec |-> InitExec]
  /\ active = 0

\* ------------------------------------------------------------ helpers ----
Max(a, b) == IF a >= b THEN a ELSE b
Min(a, b) == IF a <= b THEN a ELSE b

\* { ...r, ...upd }: the fields of upd are fields of r
Merge(r, upd) == upd @@ r

RECURSIVE SeqSum(_)
SeqSum(s) == IF s = <<>> THEN 0 ELSE Head(s) + SeqSum(Tail(s))

\* The scores left in the order of the rule list.
Unsorted(s) == s
\* ruleScores.sort((a, b) => b - a): the scores in descending order.
RECURSIVE SortDesc(_)
SortDesc(s) ==
  IF s = <<>> THEN <<>>
  ELSE LET i == CHOOSE j \in 1..Len(s) : \A k \in 1..Len(s) : s[j] >= s[k]
       IN <<s[i]>> \o SortDesc([k \in 1..(Len(s) - 1) |-> IF k < i THEN s[k] ELSE s[k + 1]])

\* slice(0, n)
Slice(s, n) == [k \in 1..Min(n, Len(s)) |-> s[k]]

\* weightedScore = sv.positive ? similarity : -similarity, for every rule
RuleScores(rules, paperVector) ==
  [k \in 1..Len(rules) |-> IF rules[k] THEN paperVector.r[k] ELSE 0 - paperVector.r[k]]

\* A missing paper vector counted as a full match.
VectorScoreNullAsFull(queryVector, paperVector) ==
  IF queryVector = "null" THEN 0 ELSE IF paperVector.isNull THEN 100 ELSE paperVector.q
\* vectorScore of processPaperBatch: 0 unless both vectors are there.
VectorScore(queryVector, paperVector) ==
  IF ~paperVector.isNull /\ queryVector # "null" THEN paperVector.q ELSE 0

\* compositeScore * 6 of processPaperBatch: the sum of the top 6 rule scores,
\* 0 without a paper vector or without rule vectors.
CompositeSum(rules, paperVector) ==
  IF ~paperVector.isNull /\ Len(rules) > 0
  THEN SeqSum(Slice(SortDesc(RuleScores(rules, paperVector)), TOP_K))
  ELSE 0

\* matches: the rules (by position) whose raw similarity is above 0.35, in
\* the order of the rule list; none without a paper vector or rule vectors.
Matches(rules, paperVector) ==
  IF ~paperVector.isNull /\ Len(rules) > 0
  THEN SelectSeq([k \in 1..Len(rules) |-> k], LAMBDA k : paperVector.r[k] > MATCH_FLOOR)
  ELSE <<>>

PassedVector(vectorScore, vecMin) == vectorScore >= vecMin
PassedComposite(compositeSum, compMin) == compositeSum >= TOP_K * compMin

\* Math.ceil(speedupSampleCount * speedupQualifyRate), the rate in quarters
CeilSampleRate(cfg) == (cfg.speedupSampleCount * cfg.rateQ + 3) \div 4

TargetQualifiedCount(cfg) == Max(1, CeilSampleRate(cfg))

\* 1. FAIL FAST CHECK, evaluated after processedCount++
FailFastHit(cfg, cycle) ==
  /\ cfg.failFast
  /\ cycle.processedCount >= cfg.speedupSampleCount
  /\ cycle.qualifiedCount = 0

\* The eligibility rule of the earlier revision of processPaperBatch: enough
\* data and a yield of at least the rate.
IsSpeedupEligibleByYield(cfg, cycle) ==
  /\ cycle.processedCount # 1
  /\ cycle.processedCount > cfg.speedupSampleCount \/ cycle.qualifiedCount > 0
  /\ 4 * cycle.qualifiedCount >= cfg.rateQ * cycle.processedCount
\* 2. SPEEDUP ELIGIBILITY, evaluated after processedCount++
IsSpeedupEligible(cfg, cycle) ==
  /\ cycle.processedCount # 1
  /\ cycle.qualifiedCount >= TargetQualifiedCount(cfg)

\* The rule of the other revision of the services: a score or a probability
\* of 5 qualifies.
IsQualifiedFrom5(json) == json.qualified \/ json.score >= 5 \/ json.probability >= 5
\* isQualified of analyzePaper: the model's boolean, or a raw score >= 6
IsQualified(json) == json.qualified \/ json.score >= QUALIFY_SCORE

\* The object analyzePaper returns from the JSON it settled on.
Analysis(json) ==
  [kind |-> "ok", qualified |-> IsQualified(json),
   score |-> Min(json.score, SCORE_CAP), probability |-> json.probability]

\* The object analyzePaper returns from its catch block.
ServiceError == [kind |-> "svcError", qualified |-> FALSE, score |-> 0, probability |-> 0]

\* A failure object that says qualified.
FailedQualified(kind) == [kind |-> kind, qualified |-> TRUE, score |-> 0, probability |-> 0]
\* The objects processPaperBatch builds for ERROR, TIMEOUT and SKIP.
Failed(kind) == [kind |-> kind, qualified |-> FALSE, score |-> 0, probability |-> 0]

\* The JSON analyzePaper settles on.  OllamaService re-queries once when the
\* first probability is 0 and takes the second answer only if its probability
\* is > 0 (not if the re-query threw); GeminiService asks once.
SettledJson(provider, first, retry) ==
  IF provider = "ollama" /\ first.probability = 0 /\ retry.ok /\ retry.probability > 0
  THEN retry ELSE first

\* if (json.probability === 0): OllamaService makes the corrective inference;
\* GeminiService has no such step.
Requeries(provider, first) == provider = "ollama" /\ first.ok /\ first.probability = 0

\* analyzePaper: first is the first inference, retry the corrective one.
AnalyzePaper(provider, first, retry) ==
  IF ~first.ok THEN ServiceError ELSE Analysis(SettledJson(provider, first, retry))

\* currentItem.vecMin ?? config.minVectorScore: every queue item sets both.
VecMin(i) == ItemVecMin(i)
CompMin(i) == ItemCompMin(i)

\* STOP_LIMIT and START_REC of handleRunCycle
StopLimit(i) == IF ItemStopRec(i) > 0 THEN ItemStopRec(i) ELSE 1000
StartRec(i) == ItemStartRec(i)

Pending(status) == status \in {"READY", "NEEDS_ADJUSTMENT"}

\* targetIds of handleRunCycle
TargetIds(q, mode) ==
  LET pend == {i \in Items : Pending(q[i])}
      RECURSIVE Asc(_)
      Asc(S) == IF S = {} THEN <<>>
                ELSE LET m == CHOOSE x \in S : \A y \in S : x <= y
                     IN <<m>> \o Asc(S \ {m})
  IN IF mode = "single" THEN Slice(Asc(pend), 1) ELSE Asc(pend)

Execs == DOMAIN exec
E(e) == exec[e]
\* exec[e] changes as upd says (and then as upd2 says)
\* The locals of one iteration of the paper loop, as they are before the
\* iteration starts; they go out of scope when it ends.
PaperLocals ==
  [vectorScore |-> 0, compositeSum |-> 0, matches |-> <<>>, passedVector |-> FALSE,
   passedComposite |-> FALSE, status |-> "FILTERED_OUT", skippedAi |-> TRUE,
   aiAnalysis |-> NoAnalysis, analysisDone |-> FALSE, attempt |-> 0,
   first |-> NoJson, retry |-> NoJson, queries |-> 0, aiAborted |-> FALSE,
   json |-> NoJson, before |-> ZeroCycle, calls |-> 0, locked |-> FALSE,
   triggered |-> FALSE, fresh |-> FALSE, delta |-> 0]
Settled(r) == IF r.fresh THEN Merge(r, PaperLocals) ELSE r
With2(e, upd, upd2) ==
  exec' = [exec EXCEPT ![e] = Merge(Merge(Settled(@), upd), upd2)]
With(e, upd) == With2(e, upd, upd)
Aborted(e) == e \in aborted


\* ---------------------------------------------------------- feed items ----
FeedItem(type, e, item, rec, status) ==
  [type |-> type, exec |-> e, item |-> item, rec |-> rec, status |-> status,
   passedVector |-> FALSE, passedComposite |-> FALSE, skippedAi |-> TRUE,
   ai |-> FALSE, processed |-> 0, qualified |-> 0]

\* What one iteration of the paper loop took in: the two pre-filter results
\* and what the judgment (if one was made) said.
LogEntry(local) ==
  [passedVector |-> local.passedVector, passedComposite |-> local.passedComposite,
   qualified |-> local.aiAnalysis.kind # "none" /\ local.aiAnalysis.qualified]

\* The PAPER item processPaperBatch appends for a paper: local holds the
\* locals of the iteration, cycle is cycleRef.current at that point.
PaperItem(e, local, cycle) ==
  [type |-> "PAPER", exec |-> e, item |-> E(e).qIdx,
   rec |-> E(e).currentStart + E(e).pIdx, status |-> local.status,
   passedVector |-> local.passedVector, passedComposite |-> local.passedComposite,
   skippedAi |-> local.skippedAi, ai |-> local.aiAnalysis.kind # "none",
   probabilityMin |-> E(e).probMin,
   processed |-> cycle.processedCount, qualified |-> cycle.qualifiedCount]

\* ------------------------------------------------------ handleRunCycle ----
\* The Run button (shown while isProcessing is false): handleRunCycle up to
\* its first await, the embedding of the enabled semantic sentences.
HandleRunCycle(e, mode) ==
  /\ active = 0
  /\ ~isProcessing
  /\ E(e).pc = "idle"
  /\ \A d \in Execs : d < e => E(d).pc # "idle"
  /\ mode \in {"single", "cycle"}
  /\ results' = <<>>
  /\ abortControllerRef' = e
  /\ LET targetIds == TargetIds(queue, mode)
     IN IF targetIds = <<>>
        THEN /\ isProcessing' = FALSE
             /\ With(e, [pc |-> "done"])
        ELSE /\ isProcessing' = TRUE
             /\ With(e, [pc |-> "sentVec", mode |-> mode, targetIds |-> targetIds,
                         tIdx |-> 1])
  /\ UNCHANGED <<config, queue, processingState, aborted, cycleRef,
                 hasTriggeredSmartModeRef, userActionResolverRef, active>>

\* How a getEmbedding call of execution e can end.  OllamaService rethrows
\* every error (an AbortError once the signal is aborted) and never returns
\* null for a non-empty text; GeminiService ignores the signal and turns
\* every error into null.
EmbeddingOutcomes(e) ==
  IF config.provider = "ollama"
  THEN {"ok", "error"} \cup (IF Aborted(e) THEN {"abort"} ELSE {})
  ELSE {"ok", "null"}

Thrown(outcome) == IF outcome = "abort" THEN "AbortError" ELSE "Error"

\* await Promise.all(validSentences.map(getEmbedding)) returns; sentences
\* without a vector are dropped from activeSentenceVectors.
SentVecDone(e, outcome) ==
  /\ active = 0
  /\ E(e).pc = "sentVec"
  /\ outcome \in EmbeddingOutcomes(e)
  /\ active' = e
  /\ IF outcome \in {"ok", "null"}
     THEN With(e, [pc |-> "itemLoop",
                   rules |-> IF outcome = "ok" THEN SemanticSentences ELSE <<>>])
     ELSE With(e, [pc |-> "catch", thrown |-> Thrown(outcome), thrownAt |-> E(e).pc])
  /\ UNCHANGED <<config, queue, isProcessing, processingState, results,
                 abortControllerRef, aborted, cycleRef, hasTriggeredSmartModeRef,
                 userActionResolverRef>>

\* for (const itemId of targetIds): the head of the loop up to the await of
\* the query embedding; resets the cycle state of the query.
ItemLoop(e) ==
  /\ active = e
  /\ E(e).pc = "itemLoop"
  /\ IF E(e).tIdx > Len(E(e).targetIds) \/ Aborted(e)
     THEN /\ With(e, [pc |-> "finally"])
          /\ UNCHANGED <<queue, results, cycleRef, hasTriggeredSmartModeRef, active>>
     ELSE LET qIdx == E(e).targetIds[E(e).tIdx]
          IN /\ queue' = [queue EXCEPT ![qIdx] = "RUNNING"]
             /\ cycleRef' = ZeroCycle
             /\ hasTriggeredSmartModeRef' = FALSE
             /\ results' = Append(results, FeedItem("HEADER", e, qIdx, 0, "none"))
             /\ active' = 0
             /\ With(e, [pc |-> "queryVec", qIdx |-> qIdx,
                         currentStart |-> StartRec(qIdx), failFastStop |-> FALSE,
                         ordinal |-> 0, fastSeen |-> FALSE, failSeen |-> FALSE,
                         returned |-> 0, log |-> <<>>,
                         requests |-> 0, asked |-> 0, lastOffset |-> 0 - 1])
  /\ UNCHANGED <<config, isProcessing, processingState, abortControllerRef,
                 aborted, userActionResolverRef>>

\* await getEmbedding(item.query, signal) returns.
QueryVecDone(e, outcome) ==
  /\ active = 0
  /\ E(e).pc = "queryVec"
  /\ outcome \in EmbeddingOutcomes(e)
  /\ active' = e
  /\ IF outcome \in {"ok", "null"}
     THEN With(e, [pc |-> "pageLoop",
                   queryVector |-> IF outcome = "ok" THEN "vec" ELSE "null"])
     ELSE With(e, [pc |-> "catch", thrown |-> Thrown(outcome), thrownAt |-> E(e).pc])
  /\ UNCHANGED <<config, queue, isProcessing, processingState, results,
                 abortControllerRef, aborted, cycleRef, hasTriggeredSmartModeRef,
                 userActionResolverRef>>

\* while (currentStart < STOP_LIMIT): the head of the batch loop up to the
\* await of the page fetch.
PageLoop(e) ==
  /\ active = e
  /\ E(e).pc = "pageLoop"
  /\ IF E(e).currentStart >= StopLimit(E(e).qIdx) \/ Aborted(e)
     THEN With(e, [pc |-> "itemEnd"]) /\ active' = e
     ELSE IF cycleRef.failFastTriggered
     THEN With(e, [pc |-> "itemEnd", failFastStop |-> TRUE]) /\ active' = e
     ELSE /\ With(e, [pc |-> "fetch", requests |-> E(e).requests + 1,
                       asked |-> Min(BATCH_SIZE, StopLimit(E(e).qIdx) - E(e).currentStart),
                       lastOffset |-> E(e).currentStart])
          /\ active' = 0
  /\ UNCHANGED <<config, queue, isProcessing, processingState, results,
                 abortControllerRef, aborted, cycleRef, hasTriggeredSmartModeRef,
                 userActionResolverRef>>

\* How the page fetch can end.  searchSemanticScholar turns every error but
\* AbortError into an empty page.  getPubMedIds throws after 3 failed
\* attempts; fetchPubMedPapers returns [] after 5.
FetchOutcomes(e) ==
  (IF config.searchMode = "PUBMED"
   THEN {"papers", "empty", "detailsFailed", "error"}
   ELSE {"papers", "empty"})
  \cup (IF Aborted(e) THEN {"abort"} ELSE {})

\* currentBatchSize = Math.min(BATCH_SIZE, STOP_LIMIT - currentStart), and no
\* more than MaxPage papers are followed
CurrentBatchSize(e) ==
  Min(MaxPage, Min(BATCH_SIZE, StopLimit(E(e).qIdx) - E(e).currentStart))

\* The page fetch returns n papers ("papers"), or ends in another way.  The
\* 'Batch Fetch Failed' item of a page whose details could not be downloaded
\* is no paper of the source (its id is err-<currentStart>): rec is negative.
FetchDone(e, outcome, n) ==
  /\ active = 0
  /\ E(e).pc = "fetch"
  /\ outcome \in FetchOutcomes(e)
  /\ n \in 1..CurrentBatchSize(e)
  /\ active' = e
  /\ CASE outcome = "papers" ->
            /\ With(e, [pc |-> "embedLoop", papers |-> n, paperEmbeddings |-> <<>>,
                        c |-> 0, returned |-> E(e).returned + n,
                        answers |-> <<>>, arrived |-> <<>>])
            /\ UNCHANGED results
       [] outcome = "empty" ->
            /\ n = 1
            /\ results' = Append(results,
                 FeedItem("CYCLE_COMPLETE", e, E(e).qIdx, E(e).currentStart, "FAIL_FAST"))
            /\ With(e, [pc |-> "itemEnd"])
       [] outcome = "detailsFailed" ->
            /\ n = 1
            /\ results' = Append(results,
                 FeedItem("PAPER", e, E(e).qIdx, 0 - (E(e).currentStart + 1), "FILTERED_OUT"))
            /\ With(e, [pc |-> "pageLoop", currentStart |-> E(e).currentStart + BATCH_SIZE])
       [] OTHER ->
            /\ n = 1
            /\ With(e, [pc |-> "catch", thrown |-> Thrown(outcome), thrownAt |-> E(e).pc])
            /\ UNCHANGED results
  /\ UNCHANGED <<config, queue, isProcessing, processingState,
                 abortControllerRef, aborted, cycleRef, hasTriggeredSmartModeRef,
                 userActionResolverRef>>

\* ---------------------------------------------------- processPaperBatch ----
\* for (c = 0; c < papers.length; c += 5): the head of the embedding loop up
\* to the await of one chunk.
EmbedLoop(e) ==
  /\ active = e
  /\ E(e).pc = "embedLoop"
  /\ IF E(e).c >= E(e).papers \/ Aborted(e)
     THEN With(e, [pc |-> "docLoop", pIdx |-> 0]) /\ active' = e
     ELSE With(e, [pc |-> "embedWait"]) /\ active' = 0
  /\ UNCHANGED <<config, queue, isProcessing, processingState, results,
                 abortControllerRef, aborted, cycleRef, hasTriggeredSmartModeRef,
                 userActionResolverRef>>

\* The vectors one getEmbedding call for a paper can return.
PaperEmbeddingResults ==
  IF config.provider = "ollama" THEN PaperVectors ELSE PaperVectors \cup {NullVector}

\* await Promise.all(chunk.map(getEmbedding)) and the 50 ms pause return:
\* chunkResults holds the vector of each paper of the chunk, in chunk order.
EmbedChunkDone(e, chunkResults) ==
  /\ active = 0
  /\ E(e).pc = "embedWait"
  /\ chunkResults \in [1..Min(CHUNK_SIZE, E(e).papers - E(e).c) -> PaperEmbeddingResults]
  /\ active' = e
  /\ With(e, [pc |-> "embedLoop", c |-> E(e).c + CHUNK_SIZE,
              paperEmbeddings |-> E(e).paperEmbeddings \o chunkResults])
  /\ UNCHANGED <<config, queue, isProcessing, processingState, results,
                 abortControllerRef, aborted, cycleRef, hasTriggeredSmartModeRef,
                 userActionResolverRef>>

\* One getEmbedding call of the chunk returns vec for the paper at position
\* p of the page; the calls of a chunk are in flight together and return in
\* any order.
EmbeddingResolved(e, p, vec) ==
  /\ active = 0
  /\ E(e).pc = "embedWait"
  /\ p \in (E(e).c + 1)..Min(E(e).c + CHUNK_SIZE, E(e).papers)
  /\ p \notin DOMAIN E(e).answers
  /\ vec \in PaperEmbeddingResults
  /\ With(e, [answers |-> (p :> vec) @@ E(e).answers,
              arrived |-> Append(E(e).arrived, p)])
  /\ UNCHANGED <<config, queue, isProcessing, processingState, results,
                 abortControllerRef, aborted, cycleRef, hasTriggeredSmartModeRef,
                 userActionResolverRef, active>>

\* The array in completion order: the i-th value is the i-th to arrive.
PromiseAllByArrival(answers, arrived, c) ==
  [i \in 1..(Len(arrived) - c) |-> answers[arrived[c + i]]]
\* Promise.all(chunk.map(...)): the array it resolves to holds the value of
\* the i-th promise at index i.
PromiseAll(answers, arrived, c) ==
  [i \in 1..(Len(arrived) - c) |-> answers[c + i]]

\* Every call of the chunk has returned: Promise.all resolves.
EmbedChunkSettled(e) ==
  /\ Len(E(e).arrived) = Min(E(e).c + CHUNK_SIZE, E(e).papers)
  /\ EmbedChunkDone(e, PromiseAll(E(e).answers, E(e).arrived, E(e).c))

\* One getEmbedding call of the chunk throws: Promise.all rejects and the
\* exception leaves processPaperBatch.
EmbedChunkThrows(e, outcome) ==
  /\ active = 0
  /\ E(e).pc = "embedWait"
  /\ outcome \in EmbeddingOutcomes(e) \ {"ok", "null"}
  /\ active' = e
  /\ With(e, [pc |-> "catch", thrown |-> Thrown(outcome), thrownAt |-> E(e).pc])
  /\ UNCHANGED <<config, queue, isProcessing, processingState, results,
                 abortControllerRef, aborted, cycleRef, hasTriggeredSmartModeRef,
                 userActionResolverRef>>

\* The batch loop goes round without currentStart += BATCH_SIZE.
BatchReturnSamePage(e, shouldStop) ==
  IF shouldStop
  THEN [pc |-> "itemEnd", failFastStop |-> TRUE, paperEmbeddings |-> <<>>]
  ELSE [pc |-> "pageLoop", paperEmbeddings |-> <<>>]
\* processPaperBatch returns to the batch loop: true stops the loop.
BatchReturn(e, shouldStop) ==
  IF shouldStop
  THEN [pc |-> "itemEnd", failFastStop |-> TRUE, paperEmbeddings |-> <<>>]
  ELSE [pc |-> "pageLoop", currentStart |-> E(e).currentStart + BATCH_SIZE,
        paperEmbeddings |-> <<>>]

\* No pre-filter: every paper counts (the earlier revision counted every paper).
PrefilteredAlways(passedVector, passedComposite) == TRUE
\* if (passedVector || passedComposite): the pre-filter
Prefiltered(passedVector, passedComposite) == passedVector \/ passedComposite

\* The decision of one paper that passed the pre-filter, from the cycle state
\* after processedCount++: fail-fast first, then speedup, else the AI.
Decide(cfg, cycle) ==
  IF FailFastHit(cfg, cycle) THEN "SKIPPED_FAIL_FAST"
  ELSE IF IsSpeedupEligible(cfg, cycle) THEN "QUALIFIED_SPEEDUP"
  ELSE "PENDING_AI"

\* processedCount++ of a paper that passed the pre-filter
CountProcessed(cycle) == [cycle EXCEPT !.processedCount = @ + 1]

\* cycleRef.current after the decision of a paper that passed the pre-filter
Decided(cycle, decision) ==
  CASE decision = "SKIPPED_FAIL_FAST" -> [cycle EXCEPT !.failFastTriggered = TRUE]
    [] decision = "QUALIFIED_SPEEDUP" -> [cycle EXCEPT !.qualifiedCount = @ + 1]
    [] OTHER -> cycle

\* The end of one iteration of the paper loop, after the result is appended:
\* if (cycleRef.current.failFastTriggered) return true; else pIdx++.
AfterPaper(e, cycle) ==
  IF cycle.failFastTriggered THEN BatchReturn(e, TRUE)
  ELSE [pc |-> "docLoop", pIdx |-> E(e).pIdx + 1]

\* for (pIdx = 0; pIdx < papers.length; pIdx++): one iteration of the paper
\* loop, from its head to its end, or to the first await of the AI branch.
DocLoop(e) ==
  /\ active = e
  /\ E(e).pc = "docLoop"
  /\ IF E(e).pIdx >= E(e).papers
     THEN /\ With(e, BatchReturn(e, FALSE))
          /\ UNCHANGED <<cycleRef, results, hasTriggeredSmartModeRef, active>>
     ELSE IF Aborted(e) \/ cycleRef.failFastTriggered
     THEN /\ With(e, BatchReturn(e, TRUE))
          /\ UNCHANGED <<cycleRef, results, hasTriggeredSmartModeRef, active>>
     ELSE
       LET paperVector == E(e).paperEmbeddings[E(e).pIdx + 1]
           vectorScore == VectorScore(E(e).queryVector, paperVector)
           compositeSum == CompositeSum(E(e).rules, paperVector)
           passedVector == PassedVector(vectorScore, VecMin(E(e).qIdx))
           passedComposite == PassedComposite(compositeSum, CompMin(E(e).qIdx))
           counted == CountProcessed(cycleRef)
           decision == Decide(config, counted)
           scored == Merge(PaperLocals,
                      [vectorScore |-> vectorScore, compositeSum |-> compositeSum,
                       matches |-> Slice(Matches(E(e).rules, paperVector), MAX_MATCHES),
                       passedVector |-> passedVector, passedComposite |-> passedComposite,
                       before |-> cycleRef, locked |-> E(e).fastSeen,
                       triggered |-> E(e).failSeen])
       IN IF ~Prefiltered(passedVector, passedComposite)
          THEN /\ results' = Append(results, PaperItem(e, scored, cycleRef))
               /\ With2(e, Merge(scored, [fresh |-> TRUE])
                            @@ [log |-> Append(E(e).log, LogEntry(scored))],
                        AfterPaper(e, cycleRef))
               /\ UNCHANGED <<cycleRef, hasTriggeredSmartModeRef, active>>
          ELSE IF decision = "PENDING_AI"
          THEN /\ cycleRef' = counted
               /\ With(e, [status |-> decision, skippedAi |-> FALSE,
                            ordinal |-> E(e).ordinal + 1,
                            pc |-> IF config.useWebScraping THEN "scrape"
                                   ELSE "judgeLoop"] @@ scored)
               /\ active' = IF config.useWebScraping THEN 0 ELSE e
               /\ UNCHANGED <<results, hasTriggeredSmartModeRef>>
          ELSE LET cycle == Decided(counted, decision)
                   local == Merge(scored, [status |-> decision, fresh |-> TRUE,
                              delta |-> cycle.qualifiedCount - cycleRef.qualifiedCount])
                   header == decision = "QUALIFIED_SPEEDUP" /\ ~hasTriggeredSmartModeRef
               IN /\ cycleRef' = cycle
                  /\ hasTriggeredSmartModeRef' =
                       (hasTriggeredSmartModeRef \/ decision = "QUALIFIED_SPEEDUP")
                  /\ results' = Append(
                       IF header
                       THEN Append(results, FeedItem("HARVEST_HEADER", e, E(e).qIdx,
                                                     counted.processedCount, "none"))
                       ELSE results,
                       PaperItem(e, local, cycle))
                  /\ With2(e, local @@ [ordinal |-> E(e).ordinal + 1,
                                        log |-> Append(E(e).log, LogEntry(local)),
                                        fastSeen |-> E(e).fastSeen \/ decision = "QUALIFIED_SPEEDUP",
                                        failSeen |-> E(e).failSeen \/ decision = "SKIPPED_FAIL_FAST"],
                           AfterPaper(e, cycle))
                  /\ UNCHANGED active
  /\ UNCHANGED <<config, queue, isProcessing, processingState,
                 abortControllerRef, aborted, userActionResolverRef>>

\* await scraperService.extractWebpageText(paper.url) returns or throws (the
\* throw is caught in place); the text only extends the abstract.
ScrapeDone(e) ==
  /\ active = 0
  /\ E(e).pc = "scrape"
  /\ active' = e
  /\ With(e, [pc |-> "judgeLoop"])
  /\ UNCHANGED <<config, queue, isProcessing, processingState, results,
                 abortControllerRef, aborted, cycleRef, hasTriggeredSmartModeRef,
                 userActionResolverRef>>

\* The status left as it was before the judgment when no analysis was made.
JudgedStatusPending(aiAnalysis) ==
  IF aiAnalysis.kind = "none" THEN "PENDING_AI"
  ELSE IF aiAnalysis.qualified THEN "QUALIFIED" ELSE "AI_REJECTED"
\* QUALIFIED only if the probability of the analysis reaches the item's
\* probability minimum.
JudgedStatusAboveProbMin(aiAnalysis) ==
  IF /\ aiAnalysis.kind # "none" /\ aiAnalysis.qualified
     /\ aiAnalysis.probability >= exec[1].probMin
  THEN "QUALIFIED" ELSE "AI_REJECTED"
\* status of a judged paper: QUALIFIED iff there is an analysis and it says
\* qualified
JudgedStatus(aiAnalysis) ==
  IF aiAnalysis.kind # "none" /\ aiAnalysis.qualified THEN "QUALIFIED" ELSE "AI_REJECTED"

\* cycleRef.current after a judged paper
Judged(cycle, status) ==
  IF status = "QUALIFIED" THEN [cycle EXCEPT !.qualifiedCount = @ + 1] ELSE cycle

\* while (!analysisDone && !signal.aborted): the head of the AI loop.  It
\* either starts an attempt (analyzePaper, the 70 s timer and the operator
\* promise, then the await of their race), or leaves the loop, sets the
\* status of the paper, appends its result and ends the iteration.
JudgeLoop(e) ==
  /\ active = e
  /\ E(e).pc = "judgeLoop"
  /\ IF ~E(e).analysisDone /\ ~Aborted(e)
     THEN /\ processingState' = e
          /\ userActionResolverRef' = <<e, E(e).attempt + 1>>
          /\ With(e, [pc |-> "race", attempt |-> E(e).attempt + 1,
                      calls |-> E(e).calls + 1, aiAborted |-> FALSE,
                      races |-> IF E(e).followLate THEN E(e).races + 1 ELSE 0,
                      pending |-> IF E(e).followLate
                                  THEN E(e).pending \cup {<<"oracle", E(e).races + 1>>,
                                                          <<"timer", E(e).races + 1>>}
                                  ELSE {}])
          /\ active' = 0
          /\ UNCHANGED <<cycleRef, results>>
     ELSE LET status == JudgedStatus(E(e).aiAnalysis)
              cycle == Judged(cycleRef, status)
              local == Merge(E(e), [status |-> status, fresh |-> TRUE])
          IN /\ processingState' = 0
             /\ cycleRef' = cycle
             /\ results' = Append(results, PaperItem(e, local, cycle))
             /\ With2(e, [status |-> status, fresh |-> TRUE,
                           log |-> Append(E(e).log, LogEntry(E(e))),
                           delta |-> cycle.qualifiedCount - cycleRef.qualifiedCount],
                       AfterPaper(e, cycle))
             /\ UNCHANGED <<userActionResolverRef, active>>
  /\ UNCHANGED <<config, queue, isProcessing, abortControllerRef, aborted,
                 hasTriggeredSmartModeRef>>

\* await Promise.race([...]) returns: the loop goes on with what upd says.
RaceDone(e, upd) ==
  /\ active = 0
  /\ E(e).pc = "race"
  /\ active' = e
  /\ With(e, upd)
  /\ UNCHANGED <<config, queue, isProcessing, processingState, results,
                 abortControllerRef, aborted, cycleRef, hasTriggeredSmartModeRef,
                 userActionResolverRef>>

\* The race is won by analyzePaper returning: SUCCESS.  The object is the
\* analysis, or the error object of analyzePaper's own catch.  retry is the
\* corrective inference, made only by OllamaService after a probability of 0.
AiSuccess(e, first, retry) ==
  /\ first \in InferencesWide
  /\ retry \in InferencesWide
  /\ ~Requeries(config.provider, first) => retry = InferenceFailed
  /\ RaceDone(e, [pc |-> "judgeLoop", analysisDone |-> TRUE,
                  aiAnalysis |-> AnalyzePaper(config.provider, first, retry),
                  json |-> IF first.ok THEN SettledJson(config.provider, first, retry)
                           ELSE NoJson,
                  first |-> first, retry |-> retry,
                  pending |-> E(e).pending \ {<<"oracle", E(e).races>>},
                  queries |-> IF Requeries(config.provider, first) THEN 2 ELSE 1])

\* The race is won by analyzePaper rejecting: ERROR.
AiError(e) ==
  RaceDone(e, [pc |-> "judgeLoop", analysisDone |-> TRUE, aiAnalysis |-> Failed("error"),
               pending |-> E(e).pending \ {<<"oracle", E(e).races>>}])

\* The 70 s timer is never armed: the race cannot end by TIMEOUT.
AiTimeoutNever(e) ==
  FALSE /\ RaceDone(e, [pc |-> "judgeLoop"])
\* The race is won by the 70 s timer: TIMEOUT.
AiTimeout(e) ==
  RaceDone(e, [pc |-> "judgeLoop", analysisDone |-> TRUE, aiAnalysis |-> Failed("timeout"),
               aiAborted |-> TRUE,
               pending |-> E(e).pending \ {<<"timer", E(e).races>>}])

\* The operator buttons of the overlay (shown while processingState is set)
\* call the resolver userActionResolverRef holds; it settles the race of the
\* attempt that created it.
ResolverOf(e) ==
  /\ processingState # 0
  /\ userActionResolverRef = <<e, E(e).attempt>>

\* onManualSkip: SKIP
OnManualSkip(e) ==
  /\ ResolverOf(e)
  /\ RaceDone(e, [pc |-> "judgeLoop", analysisDone |-> TRUE, aiAnalysis |-> Failed("skip"),
                  aiAborted |-> TRUE])

\* onManualRetry: RETRY; the loop waits 500 ms before it goes round again.
OnManualRetry(e) ==
  /\ ResolverOf(e)
  /\ E(e).attempt < MaxAttempts
  /\ active = 0
  /\ E(e).pc = "race"
  /\ With(e, [pc |-> "retryWait", aiAborted |-> TRUE])
  /\ UNCHANGED <<config, queue, isProcessing, processingState, results,
                 abortControllerRef, aborted, cycleRef, hasTriggeredSmartModeRef,
                 userActionResolverRef, active>>

\* A late event settles the race of whatever attempt is pending.
LateSettlesCurrent(e, ev) ==
  IF E(e).pc = "race"
  THEN [pc |-> "judgeLoop", analysisDone |-> TRUE,
        aiAnalysis |-> Failed(IF ev[1] = "timer" THEN "timeout" ELSE "error"),
        pending |-> E(e).pending \ {ev}]
  ELSE [pending |-> E(e).pending \ {ev}]
\* What a timer or an oracle call of an attempt whose race is already
\* settled does when it fires or answers: it resolves the promise it was
\* created with (timeoutPromise, aiPromise), which nothing awaits any more.
LateSettles(e, ev) == [pending |-> E(e).pending \ {ev}]

\* The 70 s timer or the oracle call of an attempt that was decided by
\* something else fires, answers or rejects afterwards.
LateEvent(e, ev) ==
  /\ active = 0
  /\ E(e).pc # "done"
  /\ ev \in E(e).pending
  /\ ~(E(e).pc = "race" /\ ev[2] = E(e).races)
  /\ With(e, LateSettles(e, ev))
  /\ UNCHANGED <<config, queue, isProcessing, processingState, results,
                 abortControllerRef, aborted, cycleRef, hasTriggeredSmartModeRef,
                 userActionResolverRef, active>>

\* Retry or Skip is pressed while the resolver userActionResolverRef holds
\* is that of an attempt whose race is settled (the overlay stays up during
\* the 500 ms pause after RETRY): resolve() of a settled promise is a no-op.
StalePress ==
  /\ active = 0
  /\ processingState # 0
  /\ \A e \in Execs : ~(ResolverOf(e) /\ E(e).pc = "race")
  /\ UNCHANGED vars

\* After the pause the iteration of the paper starts again from its head.
RetryWaitRestarts(e) ==
  /\ active = 0
  /\ E(e).pc = "retryWait"
  /\ active' = e
  /\ With(e, [pc |-> "docLoop"])
  /\ UNCHANGED <<config, queue, isProcessing, processingState, results,
                 abortControllerRef, aborted, cycleRef, hasTriggeredSmartModeRef,
                 userActionResolverRef>>
\* The 500 ms pause after RETRY ends.
RetryWaitDone(e) ==
  /\ active = 0
  /\ E(e).pc = "retryWait"
  /\ active' = e
  /\ With(e, [pc |-> "judgeLoop"])
  /\ UNCHANGED <<config, queue, isProcessing, processingState, results,
                 abortControllerRef, aborted, cycleRef, hasTriggeredSmartModeRef,
                 userActionResolverRef>>

\* After the batch loop: the final status of the queue item and, unless the
\* signal is aborted, the end-of-query block.
ItemEnd(e) ==
  /\ active = e
  /\ E(e).pc = "itemEnd"
  /\ queue' = [queue EXCEPT ![E(e).qIdx] =
                 IF E(e).failFastStop THEN "NEEDS_ADJUSTMENT" ELSE "COMPLETED"]
  /\ results' = IF Aborted(e) THEN results
                ELSE Append(results, FeedItem("CYCLE_COMPLETE", e, E(e).qIdx,
                       cycleRef.processedCount,
                       IF E(e).failFastStop THEN "FAIL_FAST" ELSE "COMPLETED"))
  /\ With(e, [pc |-> "itemLoop", tIdx |-> E(e).tIdx + 1])
  /\ UNCHANGED <<config, isProcessing, processingState, abortControllerRef,
                 aborted, cycleRef, hasTriggeredSmartModeRef,
                 userActionResolverRef, active>>

\* catch (an alert unless AbortError) and finally of handleRunCycle.
Finally(e) ==
  /\ active = e
  /\ E(e).pc \in {"catch", "finally"}
  /\ isProcessing' = FALSE
  /\ processingState' = 0
  /\ abortControllerRef' = 0
  /\ active' = 0
  /\ exec' = [exec EXCEPT ![e] =
                Merge(InitExec, [pc |-> "done", thrown |-> E(e).thrown,
                                 thrownAt |-> E(e).thrownAt])]
  /\ UNCHANGED <<config, queue, results, aborted, cycleRef,
                 hasTriggeredSmartModeRef, userActionResolverRef>>

\* ---------------------------------------------------------- handleCancel ----
\* The Stop button (shown while isProcessing is true).
HandleCancel ==
  /\ active = 0
  /\ isProcessing
  /\ abortControllerRef # 0
  /\ aborted' = aborted \cup {abortControllerRef}
  /\ abortControllerRef' = 0
  /\ queue' = [i \in Items |-> IF queue[i] = "RUNNING" THEN "CANCELLED" ELSE queue[i]]
  /\ isProcessing' = FALSE
  /\ processingState' = 0
  /\ UNCHANGED <<config, results, cycleRef, hasTriggeredSmartModeRef,
                 userActionResolverRef, exec, active>>

\* ------------------------------------------------------- specifications ----
\* The whole program for MaxExec presses of Run.
EmbeddingOutcome == {"ok", "null", "error", "abort"}
FetchOutcome == {"papers", "empty", "detailsFailed", "error", "abort"}
ChunkResults == UNION {[1..k -> PaperVectors \cup {NullVector}] : k \in 1..MaxPage}

Next ==
  \/ \E e \in Execs, mode \in {"single", "cycle"} : HandleRunCycle(e, mode)
  \/ HandleCancel
  \/ \E e \in Execs, outcome \in EmbeddingOutcome : SentVecDone(e, outcome)
  \/ \E e \in Execs : ItemLoop(e)
  \/ \E e \in Execs, outcome \in EmbeddingOutcome : QueryVecDone(e, outcome)
  \/ \E e \in Execs : PageLoop(e)
  \/ \E e \in Execs, outcome \in FetchOutcome, n \in 1..MaxPage : FetchDone(e, outcome, n)
  \/ \E e \in Execs : EmbedLoop(e)
  \/ \E e \in Execs, chunkResults \in ChunkResults : EmbedChunkDone(e, chunkResults)
  \/ \E e \in Execs, outcome \in EmbeddingOutcome : EmbedChunkThrows(e, outcome)
  \/ \E e \in Execs : DocLoop(e)
  \/ \E e \in Execs : ScrapeDone(e)
  \/ \E e \in Execs : JudgeLoop(e)
  \/ \E e \in Execs, first \in Inferences, retry \in Inferences : AiSuccess(e, first, retry)
  \/ \E e \in Execs : AiError(e)
  \/ \E e \in Execs : AiTimeout(e)
  \/ \E e \in Execs : OnManualSkip(e)
  \/ \E e \in Execs : OnManualRetry(e)
  \/ \E e \in Execs : RetryWaitDone(e)
  \/ \E e \in Execs : ItemEnd(e)
  \/ \E e \in Execs : Finally(e)

Spec == Init /\ [][Next]_vars

\* MaxOverlap presses of Run while the services answer: every embedding and
\* every page arrives full, and the oracle answers yes or no.  Stop is pressed
\* while a paper is with the oracle (the overlay is shown); Run is pressed
\* whenever the button is shown, also while an earlier execution has not
\* returned from its last await.
ConfigsOverlap == { Config(TRUE, 2, 2, "ollama", FALSE, "SEMANTIC") }
PassingVector == [isNull |-> FALSE, q |-> 70, r |-> <<20, 20>>]

InitOverlap ==
  /\ config \in ConfigsOverlap
  /\ queue = [i \in Items |-> "READY"]
  /\ isProcessing = FALSE
  /\ processingState = 0
  /\ results = <<>>
  /\ abortControllerRef = 0
  /\ aborted = {}
  /\ cycleRef = ZeroCycle
  /\ hasTriggeredSmartModeRef = FALSE
  /\ userActionResolverRef = <<0, 0>>
  /\ exec = [e \in 1..MaxOverlap |-> InitExec]
  /\ active = 0

NextOverlap ==
  \/ \E e \in Execs, mode \in {"single", "cycle"} : HandleRunCycle(e, mode)
  \/ processingState # 0 /\ HandleCancel
  \/ \E e \in Execs : SentVecDone(e, "ok")
  \/ \E e \in Execs : ItemLoop(e)
  \/ \E e \in Execs : QueryVecDone(e, "ok")
  \/ \E e \in Execs : PageLoop(e)
  \/ \E e \in Execs : FetchDone(e, "papers", CurrentBatchSize(e))
  \/ \E e \in Execs, k \in 1..MaxPage : EmbedChunkDone(e, [i \in 1..k |-> PassingVector])
  \/ \E e \in Execs : EmbedLoop(e)
  \/ \E e \in Execs : DocLoop(e)
  \/ \E e \in Execs : JudgeLoop(e)
  \/ \E e \in Execs, qualified \in BOOLEAN :
       AiSuccess(e, Json(qualified, 0, 0), InferenceFailed)
  \/ \E e \in Execs : ItemEnd(e)
  \/ \E e \in Execs : Finally(e)

SpecOverlap == InitOverlap /\ [][NextOverlap]_vars

\* One press of Run with one configuration and reliable services but for the
\* oracle, which answers, or does not before the 70 s timer; the operator may
\* press Skip, Retry and Stop.  The timers of setTimeout fire, and code that
\* is running goes on to its next await.
ConfigsTimer == { Config(FALSE, 1, 4, "ollama", FALSE, "SEMANTIC") }

InitTimer ==
  /\ config \in ConfigsTimer
  /\ queue = [i \in Items |-> "READY"]
  /\ isProcessing = FALSE
  /\ processingState = 0
  /\ results = <<>>
  /\ abortControllerRef = 0
  /\ aborted = {}
  /\ cycleRef = ZeroCycle
  /\ hasTriggeredSmartModeRef = FALSE
  /\ userActionResolverRef = <<0, 0>>
  /\ exec = [e \in 1..MaxExec |-> InitExec]
  /\ active = 0

NextTimer ==
  \/ \E e \in Execs, mode \in {"single", "cycle"} : HandleRunCycle(e, mode)
  \/ HandleCancel
  \/ \E e \in Execs : SentVecDone(e, "ok")
  \/ \E e \in Execs : ItemLoop(e)
  \/ \E e \in Execs : QueryVecDone(e, "ok")
  \/ \E e \in Execs : PageLoop(e)
  \/ \E e \in Execs : FetchDone(e, "papers", CurrentBatchSize(e))
  \/ \E e \in Execs, k \in 1..MaxPage : EmbedChunkDone(e, [i \in 1..k |-> PassingVector])
  \/ \E e \in Execs : EmbedLoop(e)
  \/ \E e \in Execs : DocLoop(e)
  \/ \E e \in Execs : JudgeLoop(e)
  \/ \E e \in Execs, qualified \in BOOLEAN :
       AiSuccess(e, Json(qualified, 0, 0), InferenceFailed)
  \/ \E e \in Execs : AiTimeout(e)
  \/ \E e \in Execs : OnManualSkip(e)
  \/ \E e \in Execs : OnManualRetry(e)
  \/ \E e \in Execs : RetryWaitDone(e)
  \/ \E e \in Execs : ItemEnd(e)
  \/ \E e \in Execs : Finally(e)

\* One press of Run on pages of one paper, with the timers and oracle calls
\* of decided attempts firing and answering late, and the operator pressing
\* Retry or Skip when no attempt is pending.
NextLate ==
  \/ \E e \in Execs : HandleRunCycle(e, "single")
  \/ HandleCancel
  \/ \E e \in Execs : SentVecDone(e, "ok")
  \/ \E e \in Execs : ItemLoop(e)
  \/ \E e \in Execs : QueryVecDone(e, "ok")
  \/ \E e \in Execs : PageLoop(e)
  \/ \E e \in Execs : FetchDone(e, "papers", 1)
  \/ \E e \in Execs : EmbedChunkDone(e, <<PassingVector>>)
  \/ \E e \in Execs : EmbedLoop(e)
  \/ \E e \in Execs : DocLoop(e)
  \/ \E e \in Execs : JudgeLoop(e)
  \/ \E e \in Execs : AiSuccess(e, Json(FALSE, 0, 0), InferenceFailed)
  \/ \E e \in Execs : AiError(e)
  \/ \E e \in Execs : AiTimeout(e)
  \/ \E e \in Execs : OnManualSkip(e)
  \/ \E e \in Execs : OnManualRetry(e)
  \/ \E e \in Execs : RetryWaitDone(e)
  \/ \E e \in Execs : ItemEnd(e)
  \/ \E e \in Execs : Finally(e)
  \/ \E e \in Execs, ev \in {"oracle", "timer"} \X (1..(MaxPages * MaxAttempts)) :
       LateEvent(e, ev)
  \/ StalePress

InitLate ==
  /\ config \in ConfigsTimer
  /\ queue = [i \in Items |-> "READY"]
  /\ isProcessing = FALSE
  /\ processingState = 0
  /\ results = <<>>
  /\ abortControllerRef = 0
  /\ aborted = {}
  /\ cycleRef = ZeroCycle
  /\ hasTriggeredSmartModeRef = FALSE
  /\ userActionResolverRef = <<0, 0>>
  /\ exec = [e \in 1..MaxExec |-> Merge(InitExec, [followLate |-> TRUE])]
  /\ active = 0

SpecLate == InitLate /\ [][NextLate]_vars

\* One press of Run with reliable sources and an oracle that answers with a
\* probability of 0, 3 or 7 (or not before the timer), for queue items
\* whose probability minimum the operator has set to one of ProbMins.
ProbMins == {0, 5, 10}
ConfigsProb ==
  { Config(TRUE, 2, 2, "gemini", FALSE, "SEMANTIC"),
    Config(FALSE, 1, 4, "gemini", FALSE, "SEMANTIC") }

InitProb ==
  \E probMin \in ProbMins :
    /\ config \in ConfigsProb
    /\ queue = [i \in Items |-> "READY"]
    /\ isProcessing = FALSE
    /\ processingState = 0
    /\ results = <<>>
    /\ abortControllerRef = 0
    /\ aborted = {}
    /\ cycleRef = ZeroCycle
    /\ hasTriggeredSmartModeRef = FALSE
    /\ userActionResolverRef = <<0, 0>>
    /\ exec = [e \in 1..MaxExec |-> Merge(InitExec, [probMin |-> probMin])]
    /\ active = 0

NextProb ==
  \/ \E e \in Execs : HandleRunCycle(e, "single")
  \/ \E e \in Execs : SentVecDone(e, "ok")
  \/ \E e \in Execs : ItemLoop(e)
  \/ \E e \in Execs : QueryVecDone(e, "ok")
  \/ \E e \in Execs : PageLoop(e)
  \/ \E e \in Execs : FetchDone(e, "papers", CurrentBatchSize(e))
  \/ \E e \in Execs, chunkResults \in ChunkResults : EmbedChunkDone(e, chunkResults)
  \/ \E e \in Execs : EmbedLoop(e)
  \/ \E e \in Execs : DocLoop(e)
  \/ \E e \in Execs : JudgeLoop(e)
  \/ \E e \in Execs, first \in OracleJson : AiSuccess(e, first, InferenceFailed)
  \/ \E e \in Execs : AiTimeout(e)
  \/ \E e \in Execs : ItemEnd(e)
  \/ \E e \in Execs : Finally(e)

SpecProb == InitProb /\ [][NextProb]_vars

\* --------------------------------------------------- retryWithBackoff ----
\* Errors the Gemini client throws: HTTP 429, a quota message without a
\* status, RESOURCE_EXHAUSTED, HTTP 503, HTTP 400 and a network failure.
OperationErrors ==
  { [status |-> 429, message |-> "Too Many Requests"],
    [status |-> 0, message |-> "quota"],
    [status |-> 0, message |-> "RESOURCE_EXHAUSTED"],
    [status |-> 503, message |-> "Service Unavailable"],
    [status |-> 400, message |-> "Bad Request"],
    [status |-> 0, message |-> "Failed to fetch"] }

\* Every error counts as an overload.
AnyError(error) == TRUE
\* isRateLimit and isServerOverload of the catch block
IsRateLimit(error) ==
  error.status = 429 \/ error.message \in {"429", "quota", "RESOURCE_EXHAUSTED"}
IsServerOverload(error) == error.status = 503

Backoff(e) == E(e).backoff
WithBackoff(e, upd) ==
  /\ exec' = [exec EXCEPT ![e].backoff = Merge(@, upd)]
  /\ UNCHANGED <<config, queue, isProcessing, processingState, results,
                 abortControllerRef, aborted, cycleRef, hasTriggeredSmartModeRef,
                 userActionResolverRef, active>>

\* await operation() settles: its value is returned; a rate-limit or overload
\* error is kept in lastError and the delay begins; any other error is
\* rethrown.
OperationSettles(e, outcome) ==
  /\ active = 0
  /\ Backoff(e).pc = "operation"
  /\ outcome \in OperationErrors \cup {NoError}
  /\ WithBackoff(e,
       IF outcome = NoError THEN [pc |-> "done", result |-> "returned"]
       ELSE IF IsRateLimit(outcome) \/ IsServerOverload(outcome)
       THEN [pc |-> "delay", lastError |-> outcome,
             errors |-> Append(Backoff(e).errors, outcome)]
       ELSE [pc |-> "done", result |-> "threw", thrown |-> outcome, lastError |-> outcome,
             errors |-> Append(Backoff(e).errors, outcome)])

\* The delay ends and the loop continues: i++, then operation() again if
\* i < maxRetries, and throw lastError otherwise.
DelayDone(e) ==
  /\ active = 0
  /\ Backoff(e).pc = "delay"
  /\ WithBackoff(e,
       IF Backoff(e).i + 1 < Backoff(e).maxRetries
       THEN [pc |-> "operation", i |-> Backoff(e).i + 1, calls |-> Backoff(e).calls + 1]
       ELSE [pc |-> "done", i |-> Backoff(e).i + 1, result |-> "threw",
             thrown |-> Backoff(e).lastError])

\* What GeminiService.getEmbedding makes of it: null after any error.
BackoffOutcome(e) == IF Backoff(e).result = "returned" THEN "ok" ELSE "null"

\* handleRunCycle awaits getEmbedding(item.query) of GeminiService; the first
\* operation() of its retryWithBackoff call is under way.
ConfigsBackoff == { Config(FALSE, 1, 4, "gemini", FALSE, "SEMANTIC") }

InitBackoff ==
  \E item \in Items, maxRetries \in 1..MAX_RETRIES :
    /\ config \in ConfigsBackoff
    /\ queue = [i \in Items |-> IF i = item THEN "RUNNING" ELSE "READY"]
    /\ isProcessing = TRUE
    /\ processingState = 0
    /\ results = <<FeedItem("HEADER", 1, item, 0, "none")>>
    /\ abortControllerRef = 1
    /\ aborted = {}
    /\ cycleRef = ZeroCycle
    /\ hasTriggeredSmartModeRef = FALSE
    /\ userActionResolverRef = <<0, 0>>
    /\ exec = [e \in 1..MaxExec |->
                IF e = 1
                THEN Merge(InitExec,
                       [pc |-> "queryVec", targetIds |-> <<item>>, qIdx |-> item,
                        backoff |-> Merge(NoBackoff, [pc |-> "operation", calls |-> 1,
                                                      maxRetries |-> maxRetries])])
                ELSE InitExec]
    /\ active = 0

NextBackoff ==
  \/ HandleCancel
  \/ \E e \in Execs, outcome \in OperationErrors \cup {NoError} : OperationSettles(e, outcome)
  \/ \E e \in Execs : DelayDone(e)
  \/ \E e \in Execs : Backoff(e).pc = "done" /\ QueryVecDone(e, BackoffOutcome(e))
  \/ \E e \in Execs : PageLoop(e)
  \/ \E e \in Execs : ItemEnd(e)
  \/ \E e \in Execs : ItemLoop(e)
  \/ \E e \in Execs : Finally(e)

SpecBackoff == InitBackoff /\ [][NextBackoff]_vars

\* -------------------------------------------------- fetchWithCORSCheck ----
Net(e) == E(e).net
WithNet(e, upd) ==
  /\ exec' = [exec EXCEPT ![e].net = Merge(@, upd)]
  /\ UNCHANGED <<config, queue, isProcessing, processingState, results,
                 abortControllerRef, aborted, cycleRef, hasTriggeredSmartModeRef,
                 userActionResolverRef, active>>

\* return await doFetch(...) succeeded, or the wrapper throws err
Returns(e) == [pc |-> "done", result |-> "returned", endAborted |-> Aborted(e)]
Throws(e, err) == [pc |-> "done", result |-> err, endAborted |-> Aborted(e)]

\* Steps 3 and 4 of the catch block at the time now: past MAX_DURATION the
\* diagnostic fetch of the root url is made with the signal (fetch sends
\* nothing if the signal is aborted already), otherwise the wrapper waits
\* RETRY_INTERVAL.
AfterFailure(e, now) ==
  IF now > MAX_DURATION
  THEN [pc |-> "diag", elapsed |-> now,
        sent |-> Net(e).sent + (IF Aborted(e) THEN 0 ELSE 1)]
  ELSE [pc |-> "wait", elapsed |-> now]

\* How a fetch that carries the signal can end after the signal is aborted,
\* and before.
FetchEnds(e) == IF Aborted(e) THEN {"abort"} ELSE {"ok", "fail"}

\* await doFetch(url) settles after d units: the result is returned; an
\* AbortError is rethrown; after another error the wrapper tries 127.0.0.1
\* if the url names localhost, and goes on to steps 3 and 4 otherwise.
DoFetchSettles(e, outcome, d) ==
  /\ active = 0
  /\ Net(e).pc = "request"
  /\ outcome \in FetchEnds(e)
  /\ d \in 0..MaxLatency
  /\ LET now == Net(e).elapsed + d * RETRY_INTERVAL
     IN WithNet(e, CASE outcome = "ok" -> Merge(Returns(e), [elapsed |-> now])
                     [] outcome = "abort" -> Merge(Throws(e, "AbortError"), [elapsed |-> now])
                     [] OTHER -> IF Net(e).localhost
                                 THEN [pc |-> "fallback", elapsed |-> now,
                                       sent |-> Net(e).sent + 1]
                                 ELSE AfterFailure(e, now))

\* await doFetch(fallbackUrl) settles: the result is returned; every error,
\* an AbortError too, is caught by the empty catch (retryError).
FallbackSettles(e, outcome, d) ==
  /\ active = 0
  /\ Net(e).pc = "fallback"
  /\ outcome \in FetchEnds(e)
  /\ d \in 0..MaxLatency
  /\ LET now == Net(e).elapsed + d * RETRY_INTERVAL
     IN WithNet(e, IF outcome = "ok" THEN Merge(Returns(e), [elapsed |-> now])
                   ELSE AfterFailure(e, now))

\* The diagnostic fetch settles: 'Connection blocked by CORS' if it got a
\* response, otherwise (its error is swallowed, an AbortError too) one of
\* the other messages; each is a plain Error.
DiagSettles(e, outcome) ==
  /\ active = 0
  /\ Net(e).pc = "diag"
  /\ outcome \in FetchEnds(e)
  /\ WithNet(e, Throws(e, "Error"))

\* The pause of RETRY_INTERVAL ends: AbortError if the signal is aborted by
\* now, otherwise the next round of while (true) sends the request again.
WaitDone(e) ==
  /\ active = 0
  /\ Net(e).pc = "wait"
  /\ WithNet(e, IF Aborted(e)
                THEN Merge(Throws(e, "AbortError"),
                           [elapsed |-> Net(e).elapsed + RETRY_INTERVAL])
                ELSE [pc |-> "request", attempt |-> Net(e).attempt + 1,
                      elapsed |-> Net(e).elapsed + RETRY_INTERVAL,
                      sent |-> Net(e).sent + 1])

\* What getEmbedding hands on from the wrapper (it rethrows every error).
NetOutcome(e) ==
  CASE Net(e).result = "returned" -> "ok"
    [] Net(e).result = "AbortError" -> "abort"
    [] OTHER -> "error"

\* handleRunCycle awaits getEmbedding(item.query, signal) of OllamaService
\* for a queue item; the request to Ollama has just been sent.  Stop may be
\* pressed at any time.
ConfigsFetch == { Config(FALSE, 1, 4, "ollama", FALSE, "SEMANTIC") }

InitFetch ==
  \E item \in Items, localhost \in BOOLEAN :
    /\ config \in ConfigsFetch
    /\ queue = [i \in Items |-> IF i = item THEN "RUNNING" ELSE "READY"]
    /\ isProcessing = TRUE
    /\ processingState = 0
    /\ results = <<FeedItem("HEADER", 1, item, 0, "none")>>
    /\ abortControllerRef = 1
    /\ aborted = {}
    /\ cycleRef = ZeroCycle
    /\ hasTriggeredSmartModeRef = FALSE
    /\ userActionResolverRef = <<0, 0>>
    /\ exec = [e \in 1..MaxExec |->
                IF e = 1
                THEN Merge(InitExec,
                       [pc |-> "queryVec", targetIds |-> <<item>>, qIdx |-> item,
                        net |-> Merge(NoCall, [pc |-> "request", attempt |-> 1, sent |-> 1,
                                               localhost |-> localhost])])
                ELSE InitExec]
    /\ active = 0

NextFetch ==
  \/ HandleCancel
  \/ \E e \in Execs, outcome \in {"ok", "fail", "abort"}, d \in 0..MaxLatency :
       DoFetchSettles(e, outcome, d)
  \/ \E e \in Execs, outcome \in {"ok", "fail", "abort"}, d \in 0..MaxLatency :
       FallbackSettles(e, outcome, d)
  \/ \E e \in Execs, outcome \in {"ok", "fail", "abort"} : DiagSettles(e, outcome)
  \/ \E e \in Execs : WaitDone(e)
  \/ \E e \in Execs : Net(e).pc = "done" /\ QueryVecDone(e, NetOutcome(e))
  \/ \E e \in Execs : Finally(e)

SpecFetch == InitFetch /\ [][NextFetch]_vars

\* The scoring of one paper for every rule list of up to MaxRules rules: the
\* program is at the head of the paper loop of a one-paper page, the rules
\* and the similarities of the paper to them drawn from RuleKinds.
ConfigsScoring == { Config(FALSE, 3, 2, "ollama", FALSE, "SEMANTIC") }
\* A rule: its polarity (sv.positive) and the raw similarity of the paper to it.
RuleKinds == { <<TRUE, 90>>, <<TRUE, 10>>, <<FALSE, 40>> }
RuleLists == UNION {[1..k -> RuleKinds] : k \in 1..MaxRules}
ScoringVector(q, ruleList) ==
  [isNull |-> FALSE, q |-> q, r |-> [k \in 1..Len(ruleList) |-> ruleList[k][2]]]

InitScoring ==
  \E item \in Items, ruleList \in RuleLists, q \in {30, 70} :
    /\ config \in ConfigsScoring
    /\ queue = [i \in Items |-> IF i = item THEN "RUNNING" ELSE "READY"]
    /\ isProcessing = TRUE
    /\ processingState = 0
    /\ results = <<FeedItem("HEADER", 1, item, 0, "none")>>
    /\ abortControllerRef = 1
    /\ aborted = {}
    /\ cycleRef = ZeroCycle
    /\ hasTriggeredSmartModeRef = FALSE
    /\ userActionResolverRef = <<0, 0>>
    /\ exec = [e \in 1..MaxExec |->
                IF e = 1
                THEN Merge(InitExec,
                       [pc |-> "docLoop", targetIds |-> <<item>>, qIdx |-> item,
                        rules |-> [k \in 1..Len(ruleList) |-> ruleList[k][1]],
                        queryVector |-> "vec", papers |-> 1, returned |-> 1,
                        paperEmbeddings |-> <<ScoringVector(q, ruleList)>>,
                        c |-> CHUNK_SIZE])
                ELSE InitExec]
    /\ active = 1

NextScoring ==
  \/ \E e \in Execs : DocLoop(e)
  \/ \E e \in Execs : JudgeLoop(e)
  \/ \E e \in Execs, qualified \in BOOLEAN :
       AiSuccess(e, Json(qualified, 0, 7), InferenceFailed)
  \/ \E e \in Execs : PageLoop(e)
  \/ \E e \in Execs : FetchDone(e, "empty", 1)
  \/ \E e \in Execs : ItemEnd(e)
  \/ \E e \in Execs : ItemLoop(e)
  \/ \E e \in Execs : Finally(e)

SpecScoring == InitScoring /\ [][NextScoring]_vars

\* One press of Run with reliable services and an oracle that also answers
\* with scores and probabilities out of range.
ConfigsOracle ==
  { Config(FALSE, 3, 2, "ollama", FALSE, "SEMANTIC"),
    Config(FALSE, 3, 2, "gemini", FALSE, "SEMANTIC") }

InitOracle ==
  /\ config \in ConfigsOracle
  /\ queue = [i \in Items |-> "READY"]
  /\ isProcessing = FALSE
  /\ processingState = 0
  /\ results = <<>>
  /\ abortControllerRef = 0
  /\ aborted = {}
  /\ cycleRef = ZeroCycle
  /\ hasTriggeredSmartModeRef = FALSE
  /\ userActionResolverRef = <<0, 0>>
  /\ exec = [e \in 1..MaxExec |-> InitExec]
  /\ active = 0

NextOracle ==
  \/ \E e \in Execs : HandleRunCycle(e, "single")
  \/ \E e \in Execs : SentVecDone(e, "ok")
  \/ \E e \in Execs : ItemLoop(e)
  \/ \E e \in Execs : QueryVecDone(e, "ok")
  \/ \E e \in Execs : PageLoop(e)
  \/ \E e \in Execs : FetchDone(e, "papers", 1)
  \/ \E e \in Execs : EmbedChunkDone(e, <<PassingVector>>)
  \/ \E e \in Execs : EmbedLoop(e)
  \/ \E e \in Execs : DocLoop(e)
  \/ \E e \in Execs : JudgeLoop(e)
  \/ \E e \in Execs, first \in OracleJsonWide, retry \in OracleJsonWide \cup {InferenceFailed} :
       AiSuccess(e, first, retry)
  \/ \E e \in Execs : ItemEnd(e)
  \/ \E e \in Execs : Finally(e)

SpecOracle == InitOracle /\ [][NextOracle]_vars

\* One press of Run, the embedding calls of a chunk followed one by one.
ConfigsEmbed ==
  { Config(FALSE, 3, 2, "ollama", FALSE, "SEMANTIC"),
    Config(FALSE, 2, 2, "gemini", TRUE, "PUBMED") }

InitEmbed ==
  /\ config \in ConfigsEmbed
  /\ queue = [i \in Items |-> "READY"]
  /\ isProcessing = FALSE
  /\ processingState = 0
  /\ results = <<>>
  /\ abortControllerRef = 0
  /\ aborted = {}
  /\ cycleRef = ZeroCycle
  /\ hasTriggeredSmartModeRef = FALSE
  /\ userActionResolverRef = <<0, 0>>
  /\ exec = [e \in 1..MaxExec |-> InitExec]
  /\ active = 0

NextEmbed ==
  \/ \E e \in Execs, mode \in {"single", "cycle"} : HandleRunCycle(e, mode)
  \/ HandleCancel
  \/ \E e \in Execs : SentVecDone(e, "ok")
  \/ \E e \in Execs : ItemLoop(e)
  \/ \E e \in Execs : QueryVecDone(e, "ok")
  \/ \E e \in Execs : PageLoop(e)
  \/ \E e \in Execs, n \in 1..MaxPage : FetchDone(e, "papers", n)
  \/ \E e \in Execs : EmbedLoop(e)
  \/ \E e \in Execs, p \in 1..MaxPage, vec \in PaperVectors \cup {NullVector} :
       EmbeddingResolved(e, p, vec)
  \/ \E e \in Execs : EmbedChunkSettled(e)
  \/ \E e \in Execs : DocLoop(e)
  \/ \E e \in Execs : ScrapeDone(e)
  \/ \E e \in Execs : JudgeLoop(e)
  \/ \E e \in Execs, qualified \in BOOLEAN :
       AiSuccess(e, Json(qualified, 0, 7), InferenceFailed)
  \/ \E e \in Execs : ItemEnd(e)
  \/ \E e \in Execs : Finally(e)

SpecEmbed == InitEmbed /\ [][NextEmbed]_vars

SpecTimer ==
  /\ InitTimer /\ [][NextTimer]_vars
  /\ \A e \in 1..MaxExec :
       /\ WF_vars(ItemLoop(e)) /\ WF_vars(PageLoop(e)) /\ WF_vars(EmbedLoop(e))
       /\ WF_vars(DocLoop(e)) /\ WF_vars(JudgeLoop(e)) /\ WF_vars(ItemEnd(e))
       /\ WF_vars(Finally(e))
  /\ \A e \in 1..MaxExec : WF_vars(AiTimeout(e))
  /\ \A e \in 1..MaxExec : WF_vars(RetryWaitDone(e))

\* ------------------------------------------------------------- claims ----
PassedPre(e) == Prefiltered(E(e).passedVector, E(e).passedComposite)

\* C1: with fail-fast enabled, the N-th paper of a query that passes the
\* pre-filter, reached while qualifiedCount is 0, sets failFastTriggered and
\* gets SKIPPED_FAIL_FAST; after a paper of the query hit fail-fast no paper
\* of that query is sent to the oracle or fast-pathed.
C1_FailFastOnNth ==
  \A e \in Execs :
    /\ (/\ E(e).fresh /\ PassedPre(e) /\ config.failFast
        /\ E(e).ordinal = config.speedupSampleCount
        /\ E(e).before.qualifiedCount = 0)
         => (E(e).status = "SKIPPED_FAIL_FAST" /\ cycleRef.failFastTriggered)
    /\ E(e).triggered => (E(e).calls = 0 /\ E(e).status # "QUALIFIED_SPEEDUP")

\* C3: once a paper of a query was QUALIFIED_SPEEDUP, every later paper of
\* the query that passes the pre-filter is QUALIFIED_SPEEDUP, increments
\* qualifiedCount and causes no analyzePaper call.
C3_LockIn ==
  \A e \in Execs :
    (E(e).locked /\ PassedPre(e)) =>
      /\ E(e).calls = 0
      /\ E(e).fresh => /\ E(e).status = "QUALIFIED_SPEEDUP"
                       /\ cycleRef.qualifiedCount = E(e).before.qualifiedCount + 1

\* C4: the first paper of a query that passes the pre-filter is never
\* QUALIFIED_SPEEDUP.
C4_FirstNeverFast ==
  \A e \in Execs :
    (E(e).fresh /\ PassedPre(e) /\ E(e).ordinal = 1) => E(e).status # "QUALIFIED_SPEEDUP"

\* The paper execution e has just recorded passed the pre-filter and was
\* decided while neither fail-fast nor the fast path had acted in its query.
Undecided(e) ==
  /\ E(e).fresh
  /\ E(e).passedVector \/ E(e).passedComposite
  /\ ~E(e).before.failFastTriggered
  /\ E(e).status # "SKIPPED_FAIL_FAST"
  /\ ~E(e).locked

C5_FilteredLeavesCycle ==
  \A e \in Execs :
    (/\ E(e).fresh
     /\ E(e).vectorScore < VecMin(E(e).qIdx)
     /\ E(e).compositeSum < TOP_K * CompMin(E(e).qIdx))
      => (/\ E(e).status = "FILTERED_OUT"
          /\ results[Len(results)].status = "FILTERED_OUT"
          /\ cycleRef = E(e).before)

\* A paper under both thresholds is recorded after papers of its query were
\* counted and qualified.
C5_Witness ==
  \E e \in Execs :
    /\ E(e).fresh
    /\ E(e).vectorScore < VecMin(E(e).qIdx)
    /\ E(e).compositeSum < TOP_K * CompMin(E(e).qIdx)
    /\ E(e).status = "FILTERED_OUT"
    /\ E(e).before.processedCount >= 2
    /\ E(e).before.qualifiedCount >= 1

\* The paper execution e has just recorded was judged from an answer of the
\* oracle: analyzePaper returned an analysis of the JSON E(e).json.
JudgedOk(e) == E(e).fresh /\ E(e).aiAnalysis.kind = "ok"

C7_FailureRejects ==
  \A e \in Execs :
    (E(e).fresh /\ E(e).aiAnalysis.kind \in {"svcError", "error", "timeout"}) =>
      /\ E(e).status = "AI_REJECTED"
      /\ E(e).delta = 0
      /\ results[Len(results)].type = "PAPER"
      /\ results[Len(results)].status = "AI_REJECTED"
      /\ results[Len(results)].ai
      /\ E(e).pc = "docLoop" \/ cycleRef.failFastTriggered

\* A paper whose judgment timed out is recorded after a qualified paper, in a
\* run that was not cancelled, and the loop stands at the next paper.
C7_Witness ==
  \E e \in Execs :
    /\ E(e).fresh
    /\ E(e).aiAnalysis.kind = "timeout"
    /\ E(e).status = "AI_REJECTED"
    /\ E(e).before.qualifiedCount >= 1
    /\ cycleRef.qualifiedCount = E(e).before.qualifiedCount
    /\ ~Aborted(e)
    /\ E(e).pc = "docLoop"

\* C8: no error raised while the papers of a page are embedded ends the
\* query: handleRunCycle never reaches its catch block with an error thrown
\* from the embedding of a paper.
C8_NoFatalPaperError ==
  \A e \in Execs : ~(E(e).thrown = "Error" /\ E(e).thrownAt = "embedWait")

\* C9: no PAPER record that went to the oracle (skippedAi false) is in the
\* feed without an analysis, also when Stop was pressed; and when a cancelled
\* run has ended, processedCount is the number of the last query's records
\* that passed the pre-filter.
C9_NoPartialRecord ==
  /\ \A i \in DOMAIN results :
       (results[i].type = "PAPER" /\ ~results[i].skippedAi) => results[i].ai
  /\ (\A e \in Execs : E(e).pc \in {"idle", "done"}) /\ aborted # {} =>
       LET headers == {i \in DOMAIN results : results[i].type = "HEADER"}
           last == IF headers = {} THEN 0
                   ELSE CHOOSE i \in headers : \A j \in headers : j <= i
       IN headers # {} =>
            cycleRef.processedCount =
              Cardinality({i \in DOMAIN results :
                             /\ i > last
                             /\ results[i].type = "PAPER"
                             /\ results[i].passedVector \/ results[i].passedComposite})

\* C10: at most one execution of handleRunCycle that was not cancelled is
\* under way, and the feed of a run holds no record written by an execution
\* older than one that has started.
C10_OneExecution ==
  /\ Cardinality({e \in Execs : E(e).pc \notin {"idle", "done"} /\ ~Aborted(e)}) <= 1
  /\ \A i \in DOMAIN results : \A d \in Execs :
       d > results[i].exec => E(d).pc = "idle"

\* The statuses a paper can end with.
TerminalStatuses ==
  {"FILTERED_OUT", "AI_REJECTED", "QUALIFIED", "QUALIFIED_SPEEDUP", "SKIPPED_FAIL_FAST"}

\* C11: every PAPER record of the feed carries one of the five terminal
\* statuses, never PENDING_AI; and no step changes a record that is in the
\* feed: a step appends to the feed, or Run empties it.
C11_TerminalOutcomes ==
  /\ [](\A i \in DOMAIN results :
          results[i].type = "PAPER" => results[i].status \in TerminalStatuses)
  /\ [][\/ results' = <<>>
        \/ /\ Len(results') >= Len(results)
           /\ \A i \in DOMAIN results : results'[i] = results[i]]_vars

\* The feed holds a judged paper, a fast-pathed paper and a filtered paper,
\* and a paper recorded after Stop without an analysis.
C11_Witness ==
  /\ \E i \in DOMAIN results : results[i].status = "QUALIFIED"
  /\ \E i \in DOMAIN results : results[i].status = "QUALIFIED_SPEEDUP"
  /\ \E i \in DOMAIN results : results[i].type = "PAPER" /\ results[i].status = "FILTERED_OUT"
  /\ \E i \in DOMAIN results :
       results[i].type = "PAPER" /\ ~results[i].skippedAi /\ ~results[i].ai

\* The feed positions of the records of the papers of execution e's query.
PaperRecords(e) ==
  {i \in DOMAIN results : /\ results[i].type = "PAPER"
                          /\ results[i].exec = e
                          /\ results[i].item = E(e).qIdx
                          /\ results[i].rec >= 0}

\* C12: when a query that was not cancelled ends, every paper the source
\* returned for it has exactly one record in the feed, in arrival order: the
\* records of the query are as many as the papers returned and their record
\* numbers increase along the feed.
C12_OneRecordPerPaper ==
  \A e \in Execs :
    (E(e).pc = "itemEnd" /\ ~Aborted(e)) =>
      /\ Cardinality(PaperRecords(e)) = E(e).returned
      /\ \A i, j \in PaperRecords(e) : i < j => results[i].rec < results[j].rec

\* The paper loop of processPaperBatch as a function: the statuses the papers
\* of a query get and the cycle state they leave, from the policy parameters
\* and from what scoring and judgment gave for each paper, starting from the
\* reset cycle state.
RECURSIVE Replay(_, _)
Replay(cfg, log) ==
  IF log = <<>> THEN [statuses |-> <<>>, cycle |-> ZeroCycle]
  ELSE LET prev == Replay(cfg, SubSeq(log, 1, Len(log) - 1))
           in == log[Len(log)]
           counted == CountProcessed(prev.cycle)
           decision == Decide(cfg, counted)
           passed == Prefiltered(in.passedVector, in.passedComposite)
           status == IF ~passed THEN "FILTERED_OUT"
                     ELSE IF decision # "PENDING_AI" THEN decision
                     ELSE IF in.qualified THEN "QUALIFIED" ELSE "AI_REJECTED"
           cycle == IF ~passed THEN prev.cycle
                    ELSE IF decision # "PENDING_AI" THEN Decided(counted, decision)
                    ELSE Judged(counted, status)
       IN [statuses |-> Append(prev.statuses, status), cycle |-> cycle]

\* Execution e is in a query and between two papers: its query has begun
\* and no judgment is under way.
BetweenPapers(e) ==
  E(e).pc \in {"queryVec", "pageLoop", "fetch", "embedLoop", "embedWait", "docLoop",
               "itemEnd"}

\* C13: the statuses of the papers of a query and its cycle state are a
\* function of the policy parameters and of what scoring and judgment gave
\* for each paper: in an execution that was not cancelled, the k-th record of
\* the query carries the k-th status of Replay, and between two papers
\* cycleRef is the cycle state of Replay.  Two runs over the same inputs then
\* end with the same statuses, processedCount and qualifiedCount.
C13_Deterministic ==
  \A e \in Execs :
    ~Aborted(e) =>
      LET replay == Replay(config, E(e).log)
      IN /\ Cardinality(PaperRecords(e)) = Len(E(e).log)
         /\ \A i \in PaperRecords(e) :
              results[i].status =
                replay.statuses[Cardinality({j \in PaperRecords(e) : j <= i})]
         /\ BetweenPapers(e) => cycleRef = replay.cycle

\* C14: in a judgment whose first answer arrived: if its probability is 0,
\* exactly one corrective inference is made (two in all, never a third) and
\* its answer replaces the first only if it arrived with a probability > 0;
\* if the first probability is not 0, no corrective inference is made.
C14_OneRequery ==
  \A e \in Execs :
    (E(e).analysisDone /\ E(e).first.ok) =>
      IF E(e).first.probability = 0
      THEN /\ E(e).queries = 2
           /\ E(e).json = IF E(e).retry.ok /\ E(e).retry.probability > 0
                          THEN E(e).retry ELSE E(e).first
      ELSE /\ E(e).queries = 1
           /\ E(e).json = E(e).first

Scores(r) ==
  <<r.pIdx, r.vectorScore, r.compositeSum, r.passedVector, r.passedComposite>>

\* C16: a step that ends the race of an attempt decides it in one way: it
\* sets the analysis of SUCCESS, ERROR, TIMEOUT or SKIP and ends the loop, or
\* (RETRY) sets none and leaves the loop open.  A skipped paper is recorded as
\* AI_REJECTED.  After RETRY the same paper is judged again: the steps from
\* the race through the pause to the next race keep its scores and cycleRef
\* (processedCount is not incremented again), and make one more analyzePaper
\* call for it.
C16_RaceDecides ==
  /\ [](\A e \in 1..MaxExec :
          /\ (E(e).fresh /\ E(e).aiAnalysis.kind = "skip") =>
               (E(e).status = "AI_REJECTED" /\ E(e).delta = 0)
          /\ E(e).pc = "race" => (E(e).calls = E(e).attempt /\ ~E(e).analysisDone))
  /\ [][\A e \in 1..MaxExec :
          /\ (E(e).pc = "race" /\ exec'[e] # exec[e]) =>
               /\ Scores(exec'[e]) = Scores(exec[e])
               /\ cycleRef' = cycleRef
               /\ exec'[e].attempt = E(e).attempt
               /\ \/ /\ exec'[e].pc = "judgeLoop"
                     /\ exec'[e].analysisDone
                     /\ exec'[e].aiAnalysis.kind \in {"ok", "svcError", "error", "timeout", "skip"}
                  \/ /\ exec'[e].pc = "retryWait"
                     /\ ~exec'[e].analysisDone
                     /\ exec'[e].aiAnalysis.kind = "none"
          /\ (E(e).pc = "retryWait" /\ exec'[e] # exec[e]) =>
               /\ exec'[e].pc = "judgeLoop"
               /\ Scores(exec'[e]) = Scores(exec[e])
               /\ cycleRef' = cycleRef
          /\ (E(e).pc = "judgeLoop" /\ E(e).attempt >= 1 /\ ~E(e).analysisDone
              /\ ~Aborted(e) /\ exec'[e] # exec[e]) =>
               /\ exec'[e].pc = "race"
               /\ exec'[e].attempt = E(e).attempt + 1
               /\ Scores(exec'[e]) = Scores(exec[e])
               /\ cycleRef' = cycleRef]_vars

\* A paper was retried and then skipped: it was counted once, judged twice,
\* and is recorded as AI_REJECTED.
C16_Witness ==
  \E e \in Execs :
    /\ E(e).fresh
    /\ E(e).aiAnalysis.kind = "skip"
    /\ E(e).attempt = 2
    /\ E(e).calls = 2
    /\ E(e).status = "AI_REJECTED"
    /\ cycleRef.processedCount = E(e).before.processedCount + 1

\* Execution e is inside the paper loop of a page.
InPage(e) == E(e).pc \in {"docLoop", "scrape", "judgeLoop", "race", "retryWait"}

\* The records of the papers of the page execution e is at.
PageRecords(e) ==
  {i \in PaperRecords(e) :
     results[i].rec \in E(e).currentStart..(E(e).currentStart + E(e).papers - 1)}

\* C17: while a page is processed, paperEmbeddings[i] is what getEmbedding
\* returned for paper i of the page, in whatever order the calls of the chunk
\* returned; the paper being judged and every recorded paper of the page
\* carry the scores of their own embedding; and a step of the paper loop that
\* records a paper records the one at pIdx and moves to the next (or leaves
\* the page): papers are decided one at a time, in the order of the page.
C17_OwnEmbeddingInOrder ==
  /\ [](\A e \in 1..MaxExec :
          InPage(e) =>
            /\ \A i \in DOMAIN E(e).paperEmbeddings :
                 E(e).paperEmbeddings[i] = E(e).answers[i]
            /\ E(e).pc # "docLoop" =>
                 /\ E(e).vectorScore =
                      VectorScore(E(e).queryVector, E(e).answers[E(e).pIdx + 1])
                 /\ E(e).compositeSum =
                      CompositeSum(E(e).rules, E(e).answers[E(e).pIdx + 1])
            /\ \A i \in PageRecords(e) :
                 LET vec == E(e).answers[results[i].rec - E(e).currentStart + 1]
                 IN /\ results[i].passedVector =
                         PassedVector(VectorScore(E(e).queryVector, vec), VecMin(E(e).qIdx))
                    /\ results[i].passedComposite =
                         PassedComposite(CompositeSum(E(e).rules, vec), CompMin(E(e).qIdx)))
  /\ [][\A e \in 1..MaxExec :
          (InPage(e) /\ exec'[e] # exec[e] /\ results' # results) =>
            LET r == results'[Len(results')]
            IN /\ Len(results') \in {Len(results) + 1, Len(results) + 2}
               /\ \A i \in DOMAIN results : results'[i] = results[i]
               /\ Len(results') = Len(results) + 2 =>
                    results'[Len(results) + 1].type = "HARVEST_HEADER"
               /\ r.type = "PAPER"
               /\ r.rec = E(e).currentStart + E(e).pIdx
               /\ \/ exec'[e].pc = "docLoop" /\ exec'[e].pIdx = E(e).pIdx + 1
                  \/ exec'[e].pc = "itemEnd"]_vars

\* The second paper's embedding arrived before the first one's, the two
\* differ in what they pass, and both papers are recorded.
C17_Witness ==
  \E e \in Execs :
    /\ E(e).pc = "docLoop"
    /\ E(e).pIdx = 2
    /\ E(e).arrived = <<2, 1>>
    /\ Cardinality(PageRecords(e)) = 2
    /\ \E i, j \in PageRecords(e) :
         /\ i < j
         /\ results[i].passedVector
         /\ ~results[j].passedVector

\* Execution e is inside the body of the query loop: between the reset of
\* the cycle state for a query and the final status of that query.
InQuery(e) ==
  E(e).pc \in {"queryVec", "pageLoop", "fetch", "embedLoop", "embedWait", "docLoop",
               "scrape", "judgeLoop", "race", "retryWait", "itemEnd"}

\* C18: the pending queries are executed one after another in queue order.
\* No two queue items are RUNNING at once; the query an execution is at is
\* the next of its targetIds, which are in queue order, those before it have
\* their final status and those after it still wait; and the step that resets
\* the cycle state for a query is taken when no other query is still being
\* executed.
C18_OneQueryAtATime ==
  /\ [](/\ Cardinality({i \in Items : queue[i] = "RUNNING"}) <= 1
        /\ \A e \in Execs :
             (InQuery(e) /\ E(e).mode = "cycle") =>
               /\ E(e).qIdx = E(e).targetIds[E(e).tIdx]
               /\ \A k \in 1..(Len(E(e).targetIds) - 1) :
                    E(e).targetIds[k] < E(e).targetIds[k + 1]
               /\ \A k \in 1..(E(e).tIdx - 1) :
                    queue[E(e).targetIds[k]] \in {"COMPLETED", "NEEDS_ADJUSTMENT"}
               /\ \A k \in (E(e).tIdx + 1)..Len(E(e).targetIds) :
                    Pending(queue[E(e).targetIds[k]]))
  /\ [][\A e \in Execs :
          (E(e).pc = "itemLoop" /\ exec'[e].pc = "queryVec" /\ E(e).mode = "cycle") =>
            /\ cycleRef' = ZeroCycle
            /\ \A o \in Execs \ {e} : ~InQuery(o)]_vars

\* The records of the query of execution e that are qualified, and those
\* that passed the pre-filter.
QualifiedRecords(e) ==
  {i \in PaperRecords(e) : results[i].status \in {"QUALIFIED", "QUALIFIED_SPEEDUP"}}
PassedRecords(e) ==
  {i \in PaperRecords(e) : results[i].passedVector \/ results[i].passedComposite}

\* C19: between two papers of a query, qualifiedCount is the number of the
\* query's records that are QUALIFIED or QUALIFIED_SPEEDUP and processedCount
\* the number of its records that passed the pre-filter, so
\* 0 <= qualifiedCount <= processedCount; and no step taken while the query
\* is executed decreases either counter.
C19_CountersMatchRecords ==
  /\ [](\A e \in Execs :
          BetweenPapers(e) =>
            /\ cycleRef.qualifiedCount = Cardinality(QualifiedRecords(e))
            /\ cycleRef.processedCount = Cardinality(PassedRecords(e))
            /\ 0 <= cycleRef.qualifiedCount
            /\ cycleRef.qualifiedCount <= cycleRef.processedCount)
  /\ [][\A e \in Execs :
          (InQuery(e) /\ InQuery(e)') =>
            /\ cycleRef'.qualifiedCount >= cycleRef.qualifiedCount
            /\ cycleRef'.processedCount >= cycleRef.processedCount]_vars

\* Execution e has started a query and none of its papers is decided yet.
BeforeFirstPaper(e) == BetweenPapers(e) /\ E(e).log = <<>>

\* C20: from the start of a query until its first paper is processed,
\* processedCount = 0, qualifiedCount = 0, failFastTriggered = false and
\* hasTriggeredSmartModeRef is false; the step that starts the query sets
\* them so.
C20_FreshCycleState ==
  /\ [](\A e \in Execs :
          BeforeFirstPaper(e) =>
            /\ cycleRef = ZeroCycle
            /\ ~hasTriggeredSmartModeRef)
  /\ [][\A e \in Execs :
          (E(e).pc = "itemLoop" /\ exec'[e].pc = "queryVec") =>
            /\ cycleRef' = ZeroCycle
            /\ ~hasTriggeredSmartModeRef']_vars

\* The end-of-query blocks (CYCLE_COMPLETE) in the feed for the query
\* execution e is at.
CycleCompletes(e) ==
  {i \in DOMAIN results : /\ results[i].type = "CYCLE_COMPLETE" /\ results[i].exec = e
                          /\ results[i].item = E(e).qIdx}

\* The papers of the query of execution e that hit fail-fast.
FailFastRecords(e) ==
  {i \in PaperRecords(e) : results[i].status = "SKIPPED_FAIL_FAST"}

\* No page is requested after fail-fast triggered or after an empty page.
NoFetchAfterStop ==
  \A e \in Execs :
    E(e).pc = "fetch" => (~E(e).failSeen /\ CycleCompletes(e) = {})

\* C21: after fail-fast triggered or the source returned an empty page, no
\* further page of the query is requested; and a query that ended on an empty
\* page is reported as completed: a block with status FAIL_FAST is in the
\* feed only for a query in which a paper hit fail-fast.
C21_ExhaustedEndsNormally ==
  /\ NoFetchAfterStop
  /\ \A e \in Execs :
       \A i \in CycleCompletes(e) :
         results[i].status = "FAIL_FAST" => FailFastRecords(e) # {}

\* Execution e has just ended a query that was not cancelled.
QueryEnded(e) == E(e).pc = "itemLoop" /\ E(e).tIdx > 1 /\ ~Aborted(e)

\* C22: when a query has ended without cancellation, the feed holds exactly
\* one end-of-query block for it; its total is the final processedCount and
\* its status is FAIL_FAST exactly if failFastTriggered is set.
C22_OneSummary ==
  \A e \in Execs :
    QueryEnded(e) =>
      /\ Cardinality(CycleCompletes(e)) = 1
      /\ \A i \in CycleCompletes(e) :
           /\ results[i].rec = cycleRef.processedCount
           /\ results[i].status = "FAIL_FAST" <=> cycleRef.failFastTriggered

\* The sum of the m largest entries of scores: the largest sum any m of them
\* have.
SumOver(scores, S) == SeqSum([k \in 1..Len(scores) |-> IF k \in S THEN scores[k] ELSE 0])
LargestSum(scores, m) ==
  LET sums == {SumOver(scores, S) : S \in {T \in SUBSET DOMAIN scores : Cardinality(T) = m}}
  IN CHOOSE x \in sums : \A y \in sums : x >= y

\* The paper execution e scored last, as a position of paperEmbeddings: the
\* paper in judgment, or the paper recorded by the last step of the loop.
ScoredPaper(e) ==
  IF E(e).pc \in {"scrape", "judgeLoop", "race", "retryWait"} THEN E(e).pIdx + 1
  ELSE IF E(e).pc = "docLoop" /\ E(e).fresh THEN E(e).pIdx
  ELSE 0

\* C23: for a paper with an embedding and k >= 1 rules, compositeScore is the
\* mean of the min(k, 6) largest signed contributions: compositeScore times
\* min(k, 6) is their sum (compositeSum is 6 times compositeScore).
C23_MeanOfTop ==
  \A e \in Execs :
    (/\ ScoredPaper(e) \in DOMAIN E(e).paperEmbeddings
     /\ Len(E(e).rules) >= 1
     /\ ~E(e).paperEmbeddings[ScoredPaper(e)].isNull) =>
      LET k == Len(E(e).rules)
          scores == RuleScores(E(e).rules, E(e).paperEmbeddings[ScoredPaper(e)])
      IN E(e).compositeSum * Min(k, TOP_K) = TOP_K * LargestSum(scores, Min(k, TOP_K))

\* The paper execution e scored last has this vector.
ScoredVector(e) == E(e).paperEmbeddings[ScoredPaper(e)]
Scored(e) == ScoredPaper(e) \in DOMAIN E(e).paperEmbeddings

\* C24: the matches stored for a paper are at most 3, are rules whose raw
\* similarity is above 0.35, are in descending order of raw similarity, and
\* no rule left out has a higher raw similarity than one stored.
C24_TopMatches ==
  \A e \in Execs :
    (Scored(e) /\ ~ScoredVector(e).isNull) =>
      LET m == E(e).matches
          raw == ScoredVector(e).r
          stored == {m[i] : i \in DOMAIN m}
      IN /\ Len(m) <= MAX_MATCHES
         /\ \A i \in DOMAIN m : raw[m[i]] > MATCH_FLOOR
         /\ \A i, j \in DOMAIN m : i < j => raw[m[i]] >= raw[m[j]]
         /\ \A k \in (1..Len(E(e).rules)) \ stored :
              raw[k] > MATCH_FLOOR =>
                /\ Len(m) = MAX_MATCHES
                /\ \A i \in DOMAIN m : raw[m[i]] >= raw[k]

\* The permutations of 1..k, for the k up to MaxPermuted, and the
\* transposition of positions i and j.
PermutationsOf ==
  [k \in 1..MaxPermuted |->
     {f \in [1..k -> 1..k] : \A i, j \in 1..k : i # j => f[i] # f[j]}]
Transposition(k, i, j) ==
  [x \in 1..k |-> IF x = i THEN j ELSE IF x = j THEN i ELSE x]

\* The composite sum of the paper when the rule list is permuted by f: rule
\* f[x] stands at position x.
PermutedSum(rules, paperVector, f) ==
  CompositeSum([x \in 1..Len(rules) |-> rules[f[x]]],
               [paperVector EXCEPT !.r = [x \in 1..Len(rules) |-> paperVector.r[f[x]]]])

\* C25: the composite score of a paper is the same for every permutation of
\* the rule list: for every permutation of a list of up to MaxPermuted rules,
\* and for every exchange of two rules of a list of any length (the
\* exchanges generate the permutations, and the rule lists of SpecScoring are
\* closed under them).
C25_OrderInvariant ==
  \A e \in Execs :
    (Scored(e) /\ ~ScoredVector(e).isNull /\ Len(E(e).rules) >= 1) =>
      LET k == Len(E(e).rules)
      IN /\ k <= MaxPermuted =>
              \A f \in PermutationsOf[k] :
                PermutedSum(E(e).rules, ScoredVector(e), f) = E(e).compositeSum
         /\ \A i, j \in 1..k :
              PermutedSum(E(e).rules, ScoredVector(e), Transposition(k, i, j))
                = E(e).compositeSum

\* A paper was scored against more than 6 rules, and its composite sum is
\* not the sum of the first 6 contributions in list order.
C25_Witness ==
  \E e \in Execs :
    /\ Scored(e)
    /\ Len(E(e).rules) > TOP_K
    /\ E(e).compositeSum #
         SeqSum(Slice(RuleScores(E(e).rules, ScoredVector(e)), TOP_K))

\* A value of the oracle brought into 0..10: a value in (0, 1] is a value
\* on the 0-1 scale and is multiplied by 10, then the value is clamped.
InRange(v) == Max(0, Min(SCORE_CAP, IF v > 0 /\ v <= 1 THEN v * SCORE_CAP ELSE v))

\* C26: the score and the probability of an analysis made from an oracle
\* response lie in 0..10 and are the values of the response brought into
\* range: above 10 gives 10, below 0 gives 0, a value in (0, 1] is taken
\* times 10.
C26_ScoresInRange ==
  \A e \in Execs :
    (E(e).analysisDone /\ E(e).aiAnalysis.kind = "ok") =>
      /\ E(e).aiAnalysis.score \in 0..SCORE_CAP
      /\ E(e).aiAnalysis.probability \in 0..SCORE_CAP
      /\ E(e).aiAnalysis.score = InRange(E(e).json.score)
      /\ E(e).aiAnalysis.probability = InRange(E(e).json.probability)

\* Execution e is at the head of the paper loop, about to score a paper for
\* which getEmbedding returned null.
AtNullPaper(e) ==
  /\ E(e).pc = "docLoop"
  /\ ~Aborted(e)
  /\ ~cycleRef.failFastTriggered
  /\ E(e).pIdx < E(e).papers
  /\ E(e).pIdx + 1 \in DOMAIN E(e).paperEmbeddings
  /\ E(e).paperEmbeddings[E(e).pIdx + 1].isNull

\* C27: the iteration of a paper without an embedding gives it vectorScore 0,
\* compositeScore 0 and no match, applies the pre-filter to these scores,
\* appends the record of the paper to the feed, and goes on to the next paper
\* of the page: nothing is thrown.
C27_NullEmbeddingScoresZero ==
  [][\A e \in 1..MaxExec :
       (AtNullPaper(e) /\ exec'[e] # exec[e]) =>
         LET r == results'[Len(results')]
         IN /\ exec'[e].vectorScore = 0
            /\ exec'[e].compositeSum = 0
            /\ exec'[e].matches = <<>>
            /\ exec'[e].thrown = "none"
            /\ Len(results') = Len(results) + 1
            /\ r.type = "PAPER"
            /\ r.rec = E(e).currentStart + E(e).pIdx
            /\ r.passedVector = PassedVector(0, VecMin(E(e).qIdx))
            /\ r.passedComposite = PassedComposite(0, CompMin(E(e).qIdx))
            /\ r.status = IF Prefiltered(r.passedVector, r.passedComposite)
                          THEN r.status ELSE "FILTERED_OUT"
            /\ exec'[e].pc = "docLoop"
            /\ exec'[e].pIdx = E(e).pIdx + 1]_vars

\* The first paper of a page had no embedding, and the second paper of the
\* page was processed after it: both have their record.
C27_Witness ==
  \E e \in Execs :
    /\ E(e).pc = "docLoop"
    /\ E(e).pIdx = 2
    /\ Len(E(e).paperEmbeddings) = 2
    /\ E(e).paperEmbeddings[1].isNull
    /\ ~E(e).paperEmbeddings[2].isNull
    /\ Cardinality(PageRecords(e)) = 2

\* C28: a page request that keeps failing gives the batch loop an empty or a
\* successful page: the only exception that leaves the await of the page
\* fetch is the AbortError of a cancelled run.
C28_FetchNeverFatal ==
  \A e \in Execs :
    E(e).thrownAt = "fetch" => E(e).thrown = "AbortError"

\* The harvest headers (the fast-path-activated signal) and the fast-pathed
\* papers in the feed for the query execution e is at.
HarvestHeaders(e) ==
  {i \in DOMAIN results : /\ results[i].type = "HARVEST_HEADER" /\ results[i].exec = e
                          /\ results[i].item = E(e).qIdx}
FastRecords(e) ==
  {i \in PaperRecords(e) : results[i].status = "QUALIFIED_SPEEDUP"}

\* C29: in a query the harvest header is appended at most once, directly
\* before the record of the first fast-pathed paper, and not at all when no
\* paper was fast-pathed.
C29_SignalOnce ==
  \A e \in Execs :
    InQuery(e) =>
      /\ Cardinality(HarvestHeaders(e)) <= 1
      /\ HarvestHeaders(e) # {} <=> FastRecords(e) # {}
      /\ \A h \in HarvestHeaders(e) :
           /\ h + 1 \in FastRecords(e)
           /\ \A i \in FastRecords(e) : i >= h + 1

\* C30: no query has both a fast-pathed paper and a paper that hit
\* fail-fast; and no paper is fast-pathed while failFastTriggered is set.
C30_FailFastXorFastPath ==
  \A e \in Execs :
    InQuery(e) =>
      /\ ~(FastRecords(e) # {} /\ FailFastRecords(e) # {})
      /\ (E(e).fresh /\ E(e).status = "QUALIFIED_SPEEDUP") => ~E(e).before.failFastTriggered

\* ceil((stopRec - startRec) / 20): the pages of queue item i
PagesOf(i) == (StopLimit(i) - StartRec(i) + BATCH_SIZE - 1) \div BATCH_SIZE

\* C31: every page request of a query has its offset in [startRec, stopRec)
\* and asks for at most min(20, stopRec - offset) records; the offset of a
\* request is greater than that of the request before it; and a query makes
\* at most ceil((stopRec - startRec) / 20) requests, whatever the fetches
\* return.
C31_BoundedPaging ==
  /\ [](\A e \in 1..MaxExec :
          InQuery(e) =>
            /\ E(e).requests <= PagesOf(E(e).qIdx)
            /\ E(e).pc = "fetch" =>
                 /\ E(e).currentStart = E(e).lastOffset
                 /\ E(e).currentStart >= StartRec(E(e).qIdx)
                 /\ E(e).currentStart < StopLimit(E(e).qIdx)
                 /\ E(e).asked >= 1
                 /\ E(e).asked <= BATCH_SIZE
                 /\ E(e).asked <= StopLimit(E(e).qIdx) - E(e).currentStart)
  /\ [][\A e \in 1..MaxExec :
          (InQuery(e) /\ exec'[e].pc = "fetch" /\ E(e).pc # "fetch") =>
            /\ exec'[e].lastOffset > E(e).lastOffset
            /\ exec'[e].requests = E(e).requests + 1]_vars

\* Every page fetch of a query of two pages failed, and the page loop has
\* ended after the two requests.
C31_Witness ==
  \E e \in Execs :
    /\ E(e).pc = "itemEnd"
    /\ E(e).requests = 2
    /\ PagesOf(E(e).qIdx) = 2
    /\ E(e).returned = 0
    /\ Cardinality({i \in DOMAIN results : results[i].type = "PAPER" /\ results[i].rec < 0}) = 2

\* C32: when the page loop of a queue item has ended, the item is CANCELLED
\* if Cancel was pressed during its query; it is NEEDS_ADJUSTMENT only if
\* fail-fast triggered for it, and COMPLETED only if the loop ended without
\* cancellation.
C32_FinalStatus ==
  [][\A e \in 1..MaxExec :
       (E(e).pc = "itemEnd" /\ exec'[e].pc = "itemLoop") =>
         /\ Aborted(e) => queue'[E(e).qIdx] = "CANCELLED"
         /\ queue'[E(e).qIdx] = "NEEDS_ADJUSTMENT" => cycleRef.failFastTriggered
         /\ queue'[E(e).qIdx] = "COMPLETED" => ~Aborted(e)]_vars

\* C33: while an execution of handleRunCycle that was not cancelled is in
\* progress, abortControllerRef holds its controller and isProcessing is
\* true; and the finally block of an execution changes neither while the
\* controller in abortControllerRef is that of another execution.
C33_CancelReachesRun ==
  /\ [](\A e \in 1..MaxOverlap :
          (e \in Execs /\ E(e).pc \notin {"idle", "done"} /\ ~Aborted(e)) =>
             (abortControllerRef = e /\ isProcessing))
  /\ [][\A e \in 1..MaxOverlap :
          (e \in Execs /\ E(e).pc \in {"catch", "finally"} /\ exec'[e].pc = "done"
             /\ abortControllerRef \notin {0, e}) =>
               (abortControllerRef' = abortControllerRef /\ isProcessing' = isProcessing)]_vars

\* The race of the pending attempt of execution e is settled in this step.
Decision(e) == E(e).pc = "race" /\ exec'[e].pc # "race"
\* ... by the oracle call or the timer of that attempt, or by the operator
\* through the resolver of that attempt while the overlay is shown.
OwnDecision(e) ==
  \/ E(e).pending \ exec'[e].pending = {<<"oracle", E(e).races>>}
  \/ E(e).pending \ exec'[e].pending = {<<"timer", E(e).races>>}
  \/ exec'[e].pending = E(e).pending /\ ResolverOf(e)
\* An event of a decided attempt happens in this step.
LateStep(e) ==
  /\ ~Decision(e)
  /\ exec'[e].pc # "done"
  /\ exec'[e].pending # E(e).pending
  /\ exec'[e].pending \subseteq E(e).pending

\* C34: the race of an attempt is settled only by the oracle call or the
\* timer of that attempt or by an operator action taken through its own
\* resolver while it is pending; a timer or an oracle answer of a decided
\* attempt, and Retry or Skip pressed when no attempt is pending, change no
\* attempt, no document's result and no counter.
C34_OwnAttemptDecides ==
  [][\A e \in 1..MaxExec :
       /\ Decision(e) => OwnDecision(e)
       /\ LateStep(e) =>
            /\ exec' = [exec EXCEPT ![e].pending = exec'[e].pending]
            /\ UNCHANGED <<queue, isProcessing, processingState, results,
                           cycleRef, hasTriggeredSmartModeRef, userActionResolverRef>>]_vars

\* The paper of the second page is with the oracle while the timer of the
\* first paper's attempt, which the oracle decided, has not fired yet and the
\* oracle call of an attempt ended by RETRY has not answered.
C34_Witness ==
  \E e \in Execs :
    /\ E(e).pc = "race"
    /\ E(e).currentStart = BATCH_SIZE
    /\ <<"timer", 1>> \in E(e).pending
    /\ \E r \in 1..(E(e).races - 1) : <<"oracle", r>> \in E(e).pending
    /\ <<"timer", E(e).races>> \in E(e).pending

\* The records of the query of execution e whose paper passed the pre-filter,
\* those that were SKIPPED_FAIL_FAST, and those that went to the AI branch.
CountedRecords(e) ==
  {i \in PaperRecords(e) : Prefiltered(results[i].passedVector, results[i].passedComposite)}
TriggerRecords(e) == {i \in PaperRecords(e) : results[i].status = "SKIPPED_FAIL_FAST"}
JudgedRecords(e) == {i \in PaperRecords(e) : ~results[i].skippedAi}

\* C35: with N = speedupSampleCount >= 1, fail-fast is triggered in a query
\* only together with a SKIPPED_FAIL_FAST record; that record is the one that
\* raised processedCount to N, it has no analysis, and exactly N - 1 records
\* of the query before it went to the oracle; and after a counted record
\* that reached processedCount N with qualifiedCount > 0 the query has no
\* SKIPPED_FAIL_FAST record.
C35_FailFastOnlyAtN ==
  \A e \in Execs :
    (InQuery(e) /\ config.speedupSampleCount >= 1) =>
      /\ cycleRef.failFastTriggered => TriggerRecords(e) # {}
      /\ \A i \in TriggerRecords(e) :
           /\ config.failFast
           /\ results[i].processed = config.speedupSampleCount
           /\ results[i].qualified = 0
           /\ results[i].skippedAi /\ ~results[i].ai
           /\ Cardinality({j \in JudgedRecords(e) : j < i}) = config.speedupSampleCount - 1
      /\ \A j \in CountedRecords(e) :
           (results[j].processed = config.speedupSampleCount /\ results[j].qualified > 0) =>
             \A i \in TriggerRecords(e) : i < j

\* C36: a failed request is tried again RETRY_INTERVAL later as long as the
\* signal is not aborted and MAX_DURATION is not exceeded; the wrapper ends
\* only by returning a result, by a plain error after MAX_DURATION, or by
\* AbortError; once the signal is aborted no further request is sent, and a
\* call that ends with the signal aborted ends with AbortError.
C36_RetryUntilAbort ==
  /\ [](\A e \in 1..MaxExec :
          /\ Net(e).result = "Error" => Net(e).elapsed > MAX_DURATION
          /\ (Net(e).pc = "done" /\ Net(e).endAborted) => Net(e).result = "AbortError")
  /\ [][\A e \in 1..MaxExec :
          /\ (Net(e).pc = "wait" /\ exec'[e].net.pc = "request") =>
               /\ ~Aborted(e)
               /\ exec'[e].net.elapsed = Net(e).elapsed + RETRY_INTERVAL
          /\ (Aborted(e) /\ exec'[e].net.pc # "none") => exec'[e].net.sent = Net(e).sent]_vars

RateLimitOrOverload(error) ==
  \/ error.status \in {429, 503}
  \/ error.message \in {"429", "quota", "RESOURCE_EXHAUSTED"}

\* C38: retryWithBackoff calls the operation at most maxRetries times; every
\* call but the first follows a rate-limit or overload error of the call
\* before it; an error of another kind is rethrown at once, with no further
\* call; and a call that ends after maxRetries failed attempts throws the
\* error of the last of them.
C38_BoundedRetry ==
  \A e \in Execs :
    LET b == Backoff(e)
    IN b.pc # "none" =>
         /\ b.calls <= b.maxRetries
         /\ Len(b.errors) <= b.calls
         /\ \A k \in 1..(b.calls - 1) : RateLimitOrOverload(b.errors[k])
         /\ \A k \in DOMAIN b.errors :
              ~RateLimitOrOverload(b.errors[k]) =>
                 /\ k = b.calls
                 /\ b.pc = "done" /\ b.result = "threw" /\ b.thrown = b.errors[k]
         /\ (b.pc = "done" /\ b.result = "threw") =>
              /\ Len(b.errors) = b.calls
              /\ b.thrown = b.errors[b.calls]
         /\ (b.pc = "done" /\ b.result = "threw" /\ RateLimitOrOverload(b.thrown)) =>
              b.calls = b.maxRetries
         /\ (b.pc = "done" /\ b.result = "returned") => Len(b.errors) = b.calls - 1

\* A call with the default maxRetries got HTTP 429, a quota error and HTTP
\* 503 from its three attempts and threw the last.
C38_Witness ==
  \E e \in Execs :
    /\ Backoff(e).pc = "done"
    /\ Backoff(e).maxRetries = MAX_RETRIES
    /\ Backoff(e).calls = MAX_RETRIES
    /\ Backoff(e).errors[1].status = 429
    /\ Backoff(e).errors[2].message = "quota"
    /\ Backoff(e).thrown.status = 503
====
